---------------------------- MODULE Spec2Model ----------------------------
(***************************************************************************)
(* The paging / sort / filter session of the Parquet Peek viewer           *)
(* (src/parquet-ext/viewer-utils.js), as a state machine.                  *)
(*                                                                         *)
(* The JavaScript globals and the DOM nodes the viewer writes are the      *)
(* variables.  Every async function is a task: a record holding its        *)
(* position (pc), its locals and the one query it is awaiting.  An action  *)
(* is either a user event (the synchronous part of a handler up to its     *)
(* first await) or the arrival of the awaited result (the continuation up  *)
(* to the next await or the end of the function).  The query engine is an  *)
(* opaque asynchronous service: results arrive in any order.               *)
(*                                                                         *)
(* The pure functions of the module (the escaping primitives, the filter-  *)
(* clause builder, the error classification) are operators; a second state *)
(* machine calls each of them directly on bounded sets of inputs.          *)
(*                                                                         *)
(* The extension's service worker (src/parquet-ext/background.js, and the  *)
(* two-layer version of it in src/tests/security.test.js 213-256) is a     *)
(* third state machine: its actions are the browser's events (a navigation *)
(* about to begin, a download created, a timer due) and the passing of     *)
(* time.                                                                   *)
(***************************************************************************)
EXTENDS Integers, Sequences, FiniteSets, TLC

(***************************************************************************)
(* Program constants.                                                      *)
(***************************************************************************)
CHUNK == 100

MAX_COLS == 100

TIMEOUT_MS == 30000

PENDING_MS == 30000

CATEGORICAL_THRESHOLD == 20

WARN_THRESHOLD == 10000

BATCH == 1000

(***************************************************************************)
(* Bounds of the model.                                                    *)
(***************************************************************************)
\* user events (drops, clicks, filter edits) in one behaviour
MaxOps == 3

\* tasks in flight at once in the concurrent specification
MaxInflight == 2

\* transient engine failures in one behaviour
MaxFaults == 0

\* characters in a string handed to an escaping primitive
MaxLen == 3

\* periods of ten seconds the service worker is watched for
MaxTicks == 3

\* redirects in a row the browser follows
MaxHops == 1

(***************************************************************************)
(* JavaScript values.                                                      *)
(***************************************************************************)
\* null / undefined, for the string-valued globals
Null == "null"

Min(a, b) == IF a <= b THEN a ELSE b

\* a scalar filter value (typeof val === 'string')
Str(s) == [obj |-> FALSE, s |-> s, min |-> "", max |-> ""]

\* a {min, max} filter value (typeof val === 'object')
Obj(mn, mx) == [obj |-> TRUE, s |-> "", min |-> mn, max |-> mx]

\* String.prototype.trim on the strings the model types into filters
trim(s) == IF s \in {"", " "} THEN "" ELSE s

\* the texts of the model's filter values that parseFloat reads a number from
\* (it reads the longest numeric prefix), with that number
NumLit == ("101" :> 101) @@ ("150" :> 150) @@ ("18" :> 18) @@ ("65" :> 65)
       @@ ("18abc" :> 18)

\* a variant of isNumber that wants the whole text to be a number, as
\* Number(s) does (compare C21)
isNumberWhole(s) == s \in {"101", "150", "18", "65"}

\* !isNaN(parseFloat(s))
isNumber(s) == s \in DOMAIN NumLit

parseFloat(s) == NumLit[s]

\* the dates the model types into date filters, as day numbers
DateLit == ("2024-01-02" :> 2) @@ ("2024-01-04" :> 4)

\* /^\d{4}-\d{2}-\d{2}$/.test(s)
isIsoDate(s) == s \in DOMAIN DateLit

(***************************************************************************)
(* Strings as the escaping primitives see them: the sequence of their      *)
(* characters, each a one-character string.  A JavaScript value handed to  *)
(* a primitive is a string, a number, null or undefined.                   *)
(***************************************************************************)
Js(type, chars, num) == [type |-> type, chars |-> chars, num |-> num]

\* what a call gives: the string it returns, or the TypeError it throws
Outcome(threw, chars) == [threw |-> threw, chars |-> chars]

\* the characters of the text values the model types into filters and finds
\* in select options
Spelling == ("" :> <<>>) @@ (" " :> <<" ">>)
         @@ ("ann" :> <<"a", "n", "n">>) @@ ("bob" :> <<"b", "o", "b">>)
         @@ ("cy" :> <<"c", "y">>) @@ ("dee" :> <<"d", "e", "e">>)
         @@ ("100%" :> <<"1", "0", "0", "%">>)
         @@ ("o'k" :> <<"o", "'", "k">>)
         @@ ("a_b\\" :> <<"a", "_", "b", "\\">>)
         @@ ("'%\\'_" :> <<"'", "%", "\\", "'", "_">>)

\* a variant of replaceAll that replaces the first ch only, as a pattern
\* without the g flag does (compare C23)
replaceFirst(str, ch, rep) ==
  LET found == {k \in DOMAIN str : str[k] = ch}
      first == CHOOSE k \in found : \A j \in found : k <= j
  IN IF found = {} THEN str
     ELSE SubSeq(str, 1, first - 1) \o rep \o SubSeq(str, first + 1, Len(str))

RECURSIVE replaceAll(_, _, _)
\* str.replace(/ch/g, rep): every ch of str, left to right, becomes rep; what
\* was put in is not looked at again
replaceAll(str, ch, rep) ==
  IF str = <<>> THEN <<>>
  ELSE (IF Head(str) = ch THEN rep ELSE <<Head(str)>>)
       \o replaceAll(Tail(str), ch, rep)

\* String(value): the decimal text of a number
String(value) ==
  LET Digit == <<"1", "2", "3", "4", "5", "6", "7", "8", "9">>
      RECURSIVE digits(_)
      digits(n) == IF n = 0 THEN <<>>
                   ELSE digits(n \div 10)
                        \o <<IF n % 10 = 0 THEN "0" ELSE Digit[n % 10]>>
  IN CASE value.type = "string" -> value.chars
       [] value.type = "number" ->
            IF value.num = 0 THEN <<"0">>
            ELSE IF value.num < 0 THEN <<"-">> \o digits(0 - value.num)
            ELSE digits(value.num)
       [] value.type = "null" -> <<"n", "u", "l", "l">>
       [] OTHER -> <<"u", "n", "d", "e", "f", "i", "n", "e", "d">>

\* a variant of escapeHtml that replaces the ampersands last (compare C25)
escapeHtmlAmpersandLast(str) ==
  IF str.type \in {"null", "undefined"} THEN Outcome(FALSE, <<>>)
  ELSE Outcome(FALSE,
         replaceAll(
           replaceAll(
             replaceAll(
               replaceAll(
                 replaceAll(String(str), "<", <<"&", "l", "t", ";">>),
                 ">", <<"&", "g", "t", ";">>),
               "\"", <<"&", "q", "u", "o", "t", ";">>),
             "'", <<"&", "#", "x", "2", "7", ";">>),
           "&", <<"&", "a", "m", "p", ";">>))

escapeHtml(str) ==
  IF str.type \in {"null", "undefined"} THEN Outcome(FALSE, <<>>)
  ELSE Outcome(FALSE,
         replaceAll(
           replaceAll(
             replaceAll(
               replaceAll(
                 replaceAll(String(str), "&", <<"&", "a", "m", "p", ";">>),
                 "<", <<"&", "l", "t", ";">>),
               ">", <<"&", "g", "t", ";">>),
             "\"", <<"&", "q", "u", "o", "t", ";">>),
           "'", <<"&", "#", "x", "2", "7", ";">>))

\* a variant of escapeSource that doubles only the first quote, as a replace
\* without the g flag does (compare C26)
escapeSourceFirstOnly(source) ==
  IF source.type # "string" THEN Outcome(TRUE, <<>>)
  ELSE Outcome(FALSE, replaceFirst(source.chars, "'", <<"'", "'">>))

\* source.replace of a value that is no string is a TypeError
escapeSource(source) ==
  IF source.type # "string" THEN Outcome(TRUE, <<>>)
  ELSE Outcome(FALSE, replaceAll(source.chars, "'", <<"'", "'">>))

\* a variant of escapeLikePattern that escapes the backslashes last
\* (compare C27)
escapeLikePatternBackslashLast(str) ==
  IF str.type # "string" THEN Outcome(TRUE, <<>>)
  ELSE Outcome(FALSE,
         replaceAll(
           replaceAll(
             replaceAll(str.chars, "%", <<"\\", "%">>),
             "_", <<"\\", "_">>),
           "\\", <<"\\", "\\">>))

escapeLikePattern(str) ==
  IF str.type # "string" THEN Outcome(TRUE, <<>>)
  ELSE Outcome(FALSE,
         replaceAll(
           replaceAll(
             replaceAll(str.chars, "\\", <<"\\", "\\">>),
             "%", <<"\\", "%">>),
           "_", <<"\\", "_">>))

escapeColumnName(name) ==
  IF name.type # "string" THEN Outcome(TRUE, <<>>)
  ELSE Outcome(FALSE, <<"\"">> \o replaceAll(name.chars, "\"", <<"\"", "\"">>)
                               \o <<"\"">>)

\* name.length of null or undefined and name.slice of a number are TypeErrors
\* (a number has no length, and undefined <= maxLen is false); "..." stands
\* for the one character U+2026; for maxLen >= 1
truncateColumnName(name, maxLen) ==
  IF name.type # "string" THEN Outcome(TRUE, <<>>)
  ELSE IF Len(name.chars) <= maxLen THEN Outcome(FALSE, name.chars)
  ELSE Outcome(FALSE, SubSeq(name.chars, 1, maxLen - 1) \o <<"...">>)

(***************************************************************************)
(* The files the engine can read (the external query-execution contract).  *)
(* A file has a schema and n rows; row i holds id = i, name = the i-th     *)
(* name of a repeating pattern and created = a timestamp in half days.     *)
(***************************************************************************)
Abc == << [name |-> "id", type |-> "INTEGER"],
          [name |-> "name", type |-> "VARCHAR"],
          [name |-> "created", type |-> "TIMESTAMP"] >>

Disk == ("a.parquet" :> [ok |-> TRUE, schema |-> Abc, n |-> 250, tag |-> 1000,
                         names |-> <<"ann", "bob", "cy">>])
     @@ ("b.parquet" :> [ok |-> TRUE, schema |-> Abc, n |-> 200, tag |-> 2000,
                         names |-> <<"ann", "dee">>])
     @@ ("empty.parquet" :> [ok |-> TRUE, schema |-> Abc, n |-> 0, tag |-> 3000,
                             names |-> <<"ann">>])
     @@ ("nocols.parquet" :> [ok |-> TRUE, schema |-> <<>>, n |-> 0, tag |-> 4000,
                              names |-> <<"ann">>])
     @@ ("bad.parquet" :> [ok |-> FALSE, schema |-> <<>>, n |-> 0, tag |-> 5000,
                           names |-> <<"ann">>])
     @@ ("huge.parquet" :> [ok |-> TRUE, schema |-> Abc, n |-> 10150, tag |-> 10000,
                            names |-> <<"ann", "bob", "cy">>])
     @@ ("types.parquet" :>
           [ok |-> TRUE,
            schema |-> << [name |-> "id", type |-> "UBIGINT"],
                          [name |-> "name", type |-> "VARCHAR"],
                          [name |-> "created", type |-> "TIME"] >>,
            n |-> 30, tag |-> 6000, names |-> <<"ann", "bob">>])

Sources == DOMAIN Disk

\* the collation order of the name values
NameRank == ("ann" :> 1) @@ ("bob" :> 2) @@ ("cy" :> 3) @@ ("dee" :> 4)

ColNames(cols) == {cols[k].name : k \in 1..Len(cols)}

NameCell(src, i) == Disk[src].names[((i - 1) % Len(Disk[src].names)) + 1]

\* the sort key of row i of file src in column col
Key(src, i, col) ==
  CASE col = "id" -> i
    [] col = "name" -> NameRank[NameCell(src, i)]
    [] OTHER -> 2 * (((i - 1) % 5) + 1) + (i % 2)

KeySet(src, col) == {Key(src, i, col) : i \in 1..Disk[src].n}

\* a row of a result: the tag of the file it was read from plus its position in it
Row(src, i) == Disk[src].tag + i

\* the position in file src of one of its rows
Pos(src, r) == r - Disk[src].tag

RECURSIVE Buckets(_, _, _, _)
\* the rows of src grouped by ascending or descending key,
\* rows of equal key in file order
Buckets(src, col, keys, desc) ==
  IF keys = {} THEN <<>>
  ELSE LET k == IF desc THEN CHOOSE x \in keys : \A y \in keys : y <= x
                ELSE CHOOSE x \in keys : \A y \in keys : x <= y
       IN SelectSeq([i \in 1..Disk[src].n |-> Row(src, i)],
                    LAMBDA r : Key(src, Pos(src, r), col) = k)
          \o Buckets(src, col, keys \ {k}, desc)

\* ORDER BY col ASC|DESC over the whole file
orderBy(src, col, desc) ==
  IF col = "id"
  THEN [i \in 1..Disk[src].n |-> Row(src, IF desc THEN Disk[src].n + 1 - i ELSE i)]
  ELSE Buckets(src, col, KeySet(src, col), desc)

RECURSIVE Tabulate(_)
\* orderBy as a table over a set of <<file, column, descending>> keys
Tabulate(keys) ==
  IF keys = {} THEN <<>>
  ELSE LET x == CHOOSE y \in keys : TRUE
       IN (x :> orderBy(x[1], x[2], x[3])) @@ Tabulate(keys \ {x})

\* the table of every file's orderings, computed once
Ordered == Tabulate(Sources \X {"id", "name", "created"} \X BOOLEAN)

(***************************************************************************)
(* Filter clauses.  A clause is kept as its parsed form, the record the    *)
(* engine evaluates, together with the skeleton of its SQL text (sql): its *)
(* parentheses, comparison operators and keywords, in order, and the text  *)
(* between the quotes of the string literal of a select or text clause     *)
(* (lit).                                                                  *)
(***************************************************************************)
\* .filter(Boolean) drops this one
NullClause == [col |-> "", kind |-> "null", hasMin |-> FALSE, min |-> 0,
               hasMax |-> FALSE, max |-> 0, excl |-> FALSE, val |-> "",
               sql |-> <<>>, lit |-> <<>>]

\* a variant of parenthesized that only joins the comparisons (compare C19)
joinedOnly(parts) ==
  IF Len(parts) = 2 THEN <<parts[1], "AND", parts[2]>> ELSE parts

\* `(${parts.join(' AND ')})` of the comparisons of a clause, as their operators
parenthesized(parts) ==
  <<"(">> \o (IF Len(parts) = 2 THEN <<parts[1], "AND", parts[2]>> ELSE parts)
         \o <<")">>

\* val.replace is not a function: the builder throws a TypeError
ThrowClause == [NullClause EXCEPT !.kind = "throw"]

\* a variant of nonEmpty that keeps every entry (compare C20)
nonEmptyOrNot(val) == val.obj \/ ~val.obj

\* the entry test of buildFilterClauses' first .filter()
nonEmpty(val) ==
  IF val.obj THEN val.min # "" \/ val.max # ""
  ELSE val.s # "" /\ trim(val.s) # ""

\* colMeta[col] || {}
metaOf(colMeta, col) ==
  IF col \in DOMAIN colMeta THEN colMeta[col]
  ELSE [filterType |-> "undefined", type |-> "", values |-> <<>>]

\* a variant of isTimestamp that knows the zoned type only (compare C22)
isTimestampZoned(type) == type = "TIMESTAMP WITH TIME ZONE"

\* /^TIMESTAMP/i.test(meta.type || '')
isTimestamp(type) == type \in {"TIMESTAMP", "TIMESTAMP WITH TIME ZONE"}

\* the body of buildFilterClauses' .map(): one entry to one clause
clauseOf(col, val, meta) ==
  CASE meta.filterType = "range" ->
         LET hasMin == val.obj /\ isNumber(val.min)
             hasMax == val.obj /\ isNumber(val.max)
         IN IF hasMin \/ hasMax
            THEN [NullClause EXCEPT !.col = col, !.kind = "range",
                    !.hasMin = hasMin,
                    !.min = IF hasMin THEN parseFloat(val.min) ELSE 0,
                    !.hasMax = hasMax,
                    !.max = IF hasMax THEN parseFloat(val.max) ELSE 0,
                    !.sql = parenthesized((IF hasMin THEN <<">=">> ELSE <<>>)
                                          \o (IF hasMax THEN <<"<=">> ELSE <<>>))]
            ELSE NullClause
    [] meta.filterType = "date" ->
         LET hasMin == val.obj /\ val.min # "" /\ isIsoDate(val.min)
             hasMax == val.obj /\ val.max # "" /\ isIsoDate(val.max)
         IN IF hasMin \/ hasMax
            THEN [NullClause EXCEPT !.col = col, !.kind = "date",
                    !.hasMin = hasMin,
                    !.min = IF hasMin THEN DateLit[val.min] ELSE 0,
                    !.hasMax = hasMax,
                    !.max = IF hasMax THEN DateLit[val.max] ELSE 0,
                    !.excl = hasMax /\ isTimestamp(meta.type),
                    !.sql = parenthesized(
                              (IF hasMin THEN <<">=">> ELSE <<>>)
                              \o (IF ~hasMax THEN <<>>
                                  ELSE IF isTimestamp(meta.type) THEN <<"<">>
                                  ELSE <<"<=">>))]
            ELSE NullClause
    [] meta.filterType = "select" ->
         IF val.obj THEN ThrowClause
         ELSE IF val.s = "" THEN NullClause
         ELSE [NullClause EXCEPT !.col = col, !.kind = "eq", !.val = val.s,
                 !.sql = <<"=">>,
                 !.lit = replaceAll(Spelling[val.s], "'", <<"'", "'">>)]
    [] OTHER ->
         IF val.obj THEN ThrowClause
         ELSE [NullClause EXCEPT !.col = col, !.kind = "like", !.val = val.s,
                 !.sql = <<"CAST", "ILIKE", "ESCAPE">>,
                 !.lit = <<"%">>
                         \o escapeLikePattern(
                              Js("string",
                                 replaceAll(Spelling[val.s], "'", <<"'", "'">>),
                                 0)).chars
                         \o <<"%">>]

\* filterMap is the filter object as the sequence of its entries, in insertion
\* order (Object.entries)
buildFilterClauses(filterMap, colMeta) ==
  LET kept == SelectSeq(filterMap, LAMBDA e : nonEmpty(e.val))
      mapped == [k \in 1..Len(kept) |->
                   clauseOf(kept[k].col, kept[k].val, metaOf(colMeta, kept[k].col))]
  IN SelectSeq(mapped, LAMBDA c : c.kind # "null")

\* Object.values(filters).some(...) of reloadData, loadMore and loadAll
hasFilters(filterMap) ==
  \E k \in 1..Len(filterMap) :
    LET v == filterMap[k].val
    IN IF v.obj THEN v.min # "" \/ v.max # "" ELSE v.s # "" /\ trim(v.s) # ""

(***************************************************************************)
(* Queries and the engine that answers them.                               *)
(***************************************************************************)
Query(type, src, cols, where, sortCol, sortDir, limit, off, col) ==
  [type |-> type, src |-> src, cols |-> cols, where |-> where,
   sortCol |-> sortCol, sortDir |-> sortDir, limit |-> limit, off |-> off,
   col |-> col]

NoQuery == Query("none", Null, <<>>, <<>>, Null, Null, 0, 0, "")

\* DESCRIBE SELECT * FROM read_parquet(source)
schemaQuery(source) == Query("schema", source, <<>>, <<>>, Null, Null, 0, 0, "")

\* SELECT COUNT(*) FROM read_parquet(source)
rowCountQuery(source) == Query("count", source, <<>>, <<>>, Null, Null, 0, 0, "")

\* SELECT cols FROM read_parquet(source) [WHERE ..] [ORDER BY ..] LIMIT .. OFFSET ..
rowsQuery(source, cols, limit, off, sortCol, sortDir, filterMap, colMeta) ==
  Query("rows", source, [k \in 1..Len(cols) |-> cols[k].name],
        buildFilterClauses(filterMap, colMeta),
        sortCol, IF sortCol = Null THEN Null ELSE sortDir, limit, off, "")

\* SELECT COUNT(*) FROM read_parquet(source) [WHERE ..]
filteredCountQuery(source, filterMap, colMeta) ==
  Query("count", source, <<>>, buildFilterClauses(filterMap, colMeta),
        Null, Null, 0, 0, "")

\* SELECT COUNT(DISTINCT col) FROM read_parquet(source)
distinctCountQuery(source, col) ==
  Query("distinctCount", source, <<>>, <<>>, Null, Null, 0, 0, col)

\* SELECT DISTINCT col FROM read_parquet(source) ORDER BY val LIMIT threshold
distinctValsQuery(source, col) ==
  Query("distinctVals", source, <<>>, <<>>, Null, Null, CATEGORICAL_THRESHOLD, 0, col)

\* fetch(url, {method: 'HEAD'}) of getFileSize: not an engine query
headRequest(source) == Query("head", source, <<>>, <<>>, Null, Null, 0, 0, "")

SchemaNames(src) == ColNames(Disk[src].schema)

\* the engine rejects the query: unreadable file, a TypeError while the text was
\* built, an empty select list, or a column the file does not have
Rejected(q) ==
  \/ q.src \notin Sources
  \/ ~Disk[q.src].ok
  \/ \E k \in 1..Len(q.where) : q.where[k].kind = "throw"
  \/ \E k \in 1..Len(q.where) : q.where[k].col \notin SchemaNames(q.src)
  \/ q.type = "rows" /\ q.cols = <<>>
  \/ q.type = "rows" /\ \E k \in 1..Len(q.cols) : q.cols[k] \notin SchemaNames(q.src)
  \/ q.type = "rows" /\ q.sortCol # Null /\ q.sortCol \notin SchemaNames(q.src)
  \/ q.type \in {"distinctCount", "distinctVals"} /\ q.col \notin SchemaNames(q.src)

\* the values of the fixture that contain v as a substring, case-insensitively
Containing(v) ==
  CASE v = "ann" -> {"ann"}
    [] v = "an" -> {"ann"}
    [] v = "e" -> {"dee"}
    [] v = "bob" -> {"bob"}
    [] OTHER -> {}

\* whether row i of src satisfies one WHERE clause
Holds(c, src, i) ==
  CASE c.kind = "range" ->
         /\ c.hasMin => Key(src, i, c.col) >= c.min
         /\ c.hasMax => Key(src, i, c.col) <= c.max
    [] c.kind = "date" ->
         /\ c.hasMin => Key(src, i, c.col) >= 2 * c.min
         /\ c.hasMax /\ c.excl => Key(src, i, c.col) < 2 * (c.max + 1)
         /\ c.hasMax /\ ~c.excl => Key(src, i, c.col) <= 2 * c.max
    [] c.kind = "eq" -> c.col = "name" /\ NameCell(src, i) = c.val
    [] c.kind = "like" -> c.col = "name" /\ NameCell(src, i) \in Containing(c.val)
    [] OTHER -> FALSE

\* the whole filtered and sorted result of a rows or count query
Matching(src, where, sortCol, sortDir) ==
  LET all == IF sortCol = Null THEN Ordered[<<src, "id", FALSE>>]
             ELSE Ordered[<<src, sortCol, sortDir = "DESC">>]
  IN IF where = <<>> THEN all
     ELSE SelectSeq(all, LAMBDA r : \A k \in 1..Len(where) : Holds(where[k], src, Pos(src, r)))

\* LIMIT limit OFFSET off
Window(rows, limit, off) ==
  IF off >= Len(rows) THEN <<>>
  ELSE SubSeq(rows, off + 1, Min(off + limit, Len(rows)))

\* result.toArray() of a rows query
RowsOf(q) == Window(Matching(q.src, q.where, q.sortCol, q.sortDir), q.limit, q.off)

\* Number(result.toArray()[0].cnt) of a COUNT(*) query
CountOf(q) == Len(Matching(q.src, q.where, Null, Null))

\* the distinct values of a column, in collation order
DistinctVals(src, col) ==
  IF col = "name"
  THEN LET used == {NameCell(src, i) : i \in 1..Disk[src].n}
           ranks == {NameRank[v] : v \in used}
           nth[k \in 1..Cardinality(ranks)] ==
             CHOOSE v \in used :
               Cardinality({w \in used : NameRank[w] < NameRank[v]}) = k - 1
       IN [k \in 1..Cardinality(ranks) |-> nth[k]]
  ELSE <<>>

DistinctCountOf(q) ==
  IF q.col = "name" THEN Len(DistinctVals(q.src, q.col))
  ELSE Cardinality(KeySet(q.src, q.col))

(***************************************************************************)
(* State.                                                                  *)
(***************************************************************************)
VARIABLES
  \* the globals of the viewer (viewer-utils.js 100-115)
  currentSource, offset, totalRows, columns, sortColumn, sortDirection,
  filters, columnMeta, rowOffset,
  \* the DOM: #status, #table, #buttons, #more, #loadAll, and the pending
  \* setTimeout callbacks of the filter inputs, oldest first
  statusText, loading, tableState, tableCols, tbody,
  buttonsHidden, moreDisabled, moreLabel, moreRemaining, loadAllDisabled, timeouts,
  \* the page's url parameter, the 30 s timer and the Promise.race of the main load
  fileUrl, timer, raceSettled,
  \* the async functions in flight, oldest first
  tasks,
  \* the environment's budgets: user events left, transient engine failures left,
  \* and the number of tasks the user lets overlap
  opsLeft, faultsLeft, cap,
  \* history: the transition that ended last, the transitions that overlapped
  \* since the session was last idle, the rows fetched since the last Load or
  \* reload began, the last computation of "remaining", the file columnMeta was
  \* computed for and its last use, the queries of the last Load that ended,
  \* and whether a rejection escaped every handler
  done, burst, chain, retrieved, remCalc, metaSrc, metaUse, lastLoad, unhandled,
  \* the last direct call of one of the module's functions: its arguments and
  \* what it returned
  call,
  \* the extension's service worker: the Map of the tabs that navigated to a
  \* .parquet URL, its pending setTimeout callbacks, the navigations its
  \* chrome.tabs.update calls started and the browser has not announced yet,
  \* the clock (ms), and the events it handled with what it did for each
  pendingParquetTabs, expiries, navigating, now, handled

session == <<currentSource, offset, totalRows, columns, sortColumn, sortDirection,
             filters, columnMeta, rowOffset>>

dom == <<statusText, loading, tableState, tableCols, tbody,
         buttonsHidden, moreDisabled, moreLabel, moreRemaining, loadAllDisabled,
         timeouts>>

env == <<fileUrl, timer, raceSettled, tasks, opsLeft, faultsLeft, cap>>

history == <<done, burst, chain, retrieved, remCalc, metaSrc, metaUse, lastLoad,
             unhandled>>

worker == <<pendingParquetTabs, expiries, navigating, now, handled>>

vars == <<session, dom, env, history, call, worker>>

(***************************************************************************)
(* Tasks.                                                                  *)
(***************************************************************************)
NoMeta == [c \in {} |-> 0]

\* kind: load | reload | loadMore | loadAll; pc: the await the task is parked at;
\* q: the awaited query; the other fields are the function's locals.  by, arg
\* and filt record what started the task and the filter mapping its count
\* query was issued under.
Task == [kind |-> "", pc |-> "", q |-> NoQuery, rows |-> <<>>, source |-> Null,
         isUrl |-> FALSE, cols |-> <<>>, k |-> 0, meta |-> NoMeta, nAll |-> 0,
         count |-> 0, trace |-> <<>>, by |-> "", arg |-> "", filt |-> <<>>]

RemoveAt(seq, i) == [k \in 1..(Len(seq) - 1) |-> IF k < i THEN seq[k] ELSE seq[k + 1]]

ReplaceAt(seq, i, t) == [seq EXCEPT ![i] = t]

\* the awaited query of task i is answered with a result
Answered(i, kind, pc) ==
  /\ i \in 1..Len(tasks)
  /\ tasks[i].kind = kind
  /\ tasks[i].pc = pc
  /\ ~Rejected(tasks[i].q)

(***************************************************************************)
(* History bookkeeping.                                                    *)
(***************************************************************************)
Done(kind, ok, t, n, off, shown) ==
  [kind |-> kind, ok |-> ok, alone |-> (burst.n = 1 /\ ~burst.failed), n |-> n, off |-> off,
   shown |-> shown, by |-> t.by]

NoDone == [kind |-> "", ok |-> TRUE, alone |-> TRUE, n |-> 0, off |-> 0,
           shown |-> TRUE, by |-> ""]

Began(kind) ==
  IF tasks = <<>> THEN [n |-> 1, kinds |-> {kind}, failed |-> FALSE]
  ELSE [n |-> burst.n + 1, kinds |-> burst.kinds \cup {kind}, failed |-> burst.failed]

\* a computation of "remaining": whether a filter is active when it is shown,
\* whether a count query fed it, and whether that query's filter mapping, filt,
\* builds the WHERE clauses the current mapping builds
RemCalc(by, queried, filt) ==
  [by |-> by, active |-> hasFilters(filters), queried |-> queried,
   fresh |-> queried /\ buildFilterClauses(filt, columnMeta)
                          = buildFilterClauses(filters, columnMeta)]

NoRemCalc == [by |-> "", active |-> FALSE, queried |-> FALSE, fresh |-> FALSE]

MetaUse(meta, cur) == [meta |-> meta, cur |-> cur]

(***************************************************************************)
(* Errors: the texts the model raises and their classification.            *)
(***************************************************************************)
\* new Error(...) of the main execution's timeoutPromise
TimeoutMessage == "Request timed out - the server took too long to respond"

\* String.prototype.toLowerCase on the messages of the model: the timeout's,
\* and messages of the browser and of the engine
toLowerCase ==
     (TimeoutMessage :> "request timed out - the server took too long to respond")
  @@ ("Failed to fetch" :> "failed to fetch")
  @@ ("Invalid Input Error: No magic bytes found at end of file" :> "invalid input error: no magic bytes found at end of file")
  @@ ("Binder Error: column not found" :> "binder error: column not found")
  @@ ("val.replace is not a function" :> "val.replace is not a function")
  @@ ("Cannot read properties of null" :> "cannot read properties of null")
  @@ ("NetworkError when attempting to fetch resource."
        :> "networkerror when attempting to fetch resource.")
  @@ ("Access blocked by CORS policy" :> "access blocked by cors policy")
  @@ ("Cross-Origin Request Blocked" :> "cross-origin request blocked")
  @@ ("net::ERR_CONNECTION_REFUSED" :> "net::err_connection_refused")
  @@ ("IO Error: Network error while reading" :> "io error: network error while reading")
  @@ ("Failed to fetch https://data.example/a.parquet"
        :> "failed to fetch https://data.example/a.parquet")
  @@ ("File is corrupted" :> "file is corrupted")

\* the substrings isCorsError, isNetworkError and isInvalidParquet look for
\* that occur, case-sensitively, in a text of the model
occurring ==
     ("" :> {})
  @@ ("request timed out - the server took too long to respond" :> {})
  @@ ("failed to fetch" :> {"failed to fetch"})
  @@ ("invalid input error: no magic bytes found at end of file" :> {"invalid"})
  @@ ("binder error: column not found" :> {})
  @@ ("cannot read properties of null" :> {})
  @@ ("networkerror when attempting to fetch resource." :> {"networkerror"})
  @@ ("access blocked by cors policy" :> {"cors"})
  @@ ("cross-origin request blocked" :> {"cross-origin"})
  @@ ("net::err_connection_refused" :> {"net::"})
  @@ ("io error: network error while reading" :> {"network error"})
  @@ ("failed to fetch https://data.example/a.parquet"
        :> {"failed to fetch", "parquet"})
  @@ ("file is corrupted" :> {"corrupted"})
  @@ (TimeoutMessage :> {})
  @@ ("Failed to fetch" :> {})
  @@ ("Invalid Input Error: No magic bytes found at end of file" :> {})
  @@ ("Binder Error: column not found" :> {})
  @@ ("val.replace is not a function" :> {})
  @@ ("Cannot read properties of null" :> {})
  @@ ("NetworkError when attempting to fetch resource." :> {})
  @@ ("Access blocked by CORS policy" :> {})
  @@ ("Cross-Origin Request Blocked" :> {})
  @@ ("net::ERR_CONNECTION_REFUSED" :> {"net::"})
  @@ ("IO Error: Network error while reading" :> {})
  @@ ("Failed to fetch https://data.example/a.parquet" :> {"parquet"})
  @@ ("File is corrupted" :> {"corrupted"})

\* String.prototype.includes
includes(text, needle) == needle \in occurring[text]

\* error.message?.toLowerCase() || '', for an error whose message may be
\* undefined
lowerMessage(error) == IF error = Null THEN "" ELSE toLowerCase[error]

\* the url parameters that name a local file; every other one is an https URL
LocalUrls == {"file:///data/a.parquet"}

\* fileUrl?.startsWith('http')
startsWithHttp(url) == url # Null /\ url \notin LocalUrls

isCorsError(error) ==
  LET msg == lowerMessage(error)
  IN \/ includes(msg, "cors")
     \/ includes(msg, "cross-origin")
     \/ includes(msg, "network error")
     \/ (includes(msg, "failed to fetch") /\ startsWithHttp(fileUrl))

isNetworkError(error) ==
  LET msg == lowerMessage(error)
  IN \/ includes(msg, "failed to fetch")
     \/ includes(msg, "networkerror")
     \/ includes(msg, "network request failed")
     \/ includes(msg, "net::")

isInvalidParquet(error) ==
  LET msg == lowerMessage(error)
  IN \/ includes(msg, "parquet")
     \/ includes(msg, "invalid")
     \/ includes(msg, "not a valid")
     \/ includes(msg, "magic number")
     \/ includes(msg, "corrupted")

\* a variant of handleError that tests for a network error first (compare C17)
handleErrorNetworkFirst(error) ==
  IF isNetworkError(error) THEN "Network Error"
  ELSE IF isCorsError(error) THEN "CORS Error - Cannot access this file"
  ELSE IF isInvalidParquet(error) THEN "Invalid Parquet File"
  ELSE "Error"

\* the title handleError(error) shows
handleError(error) ==
  IF isCorsError(error) THEN "CORS Error - Cannot access this file"
  ELSE IF isNetworkError(error) THEN "Network Error"
  ELSE IF isInvalidParquet(error) THEN "Invalid Parquet File"
  ELSE "Error"

\* a direct call of a function of the module
Call(fn, error, filterMap, colMeta, title, clauses, query) ==
  [fn |-> fn, error |-> error, filterMap |-> filterMap, colMeta |-> colMeta,
   title |-> title, clauses |-> clauses, query |-> query,
   args |-> <<>>, returned |-> Outcome(FALSE, <<>>)]

NoCall == Call("", Null, <<>>, NoMeta, "", <<>>, NoQuery)

(***************************************************************************)
(* Rendering (renderRows) and the buttons.                                 *)
(***************************************************************************)
\* the control renderRows puts in the filter row of a column
filterInput(colMeta, name) ==
  LET meta == metaOf(colMeta, name)
  IN [name |-> name,
      input |-> IF meta.filterType \in {"select", "range", "date"}
                THEN meta.filterType ELSE "text",
      options |-> IF meta.filterType = "select" THEN meta.values ELSE <<>>]

\* renderRows(rows, cols, append): the table after it, and whether it threw
\* fresh: the filter row and its handlers were built anew
renderRows(rows, cols, append) ==
  IF Len(cols) = 0
  THEN [state |-> "nocols", cols |-> <<>>, body |-> <<>>, rowOffset |-> rowOffset,
        threw |-> FALSE, fresh |-> FALSE]
  ELSE IF ~append
  THEN [state |-> "table",
        cols |-> [k \in 1..Len(cols) |-> filterInput(columnMeta, cols[k].name)],
        body |-> rows, rowOffset |-> Len(rows), threw |-> FALSE, fresh |-> TRUE]
  ELSE IF tableState = "table"
  THEN [state |-> tableState, cols |-> tableCols, body |-> tbody \o rows,
        rowOffset |-> rowOffset + Len(rows), threw |-> FALSE, fresh |-> FALSE]
  ELSE [state |-> tableState, cols |-> tableCols, body |-> tbody,
        rowOffset |-> rowOffset + Len(rows), threw |-> TRUE, fresh |-> FALSE]

\* a pending setTimeout callback of a filter input: the handler it will call
\* with the input's column, bound and value, and whether the filterTimeout
\* variable of the filter row now shown holds it
Pending(col, rangeType, value) ==
  [col |-> col, rangeType |-> rangeType, value |-> value, held |-> TRUE]

\* let filterTimeout of a new filter row: the callbacks of the row it replaces
\* stay scheduled and can no longer be cleared
released(pending) == [j \in 1..Len(pending) |-> [pending[j] EXCEPT !.held = FALSE]]

Rendered(r) ==
  /\ tableState' = r.state
  /\ tableCols' = r.cols
  /\ tbody' = r.body
  /\ rowOffset' = r.rowOffset
  /\ timeouts' = IF r.fresh THEN released(timeouts) ELSE timeouts

\* moreBtn.textContent = `Load next ... (${remaining} remaining)`; moreBtn.disabled
ShowRemaining(remaining) ==
  /\ moreRemaining' = remaining
  /\ moreLabel' = "count"
  /\ moreDisabled' = (remaining <= 0)

\* showError(title, ...)
ShowError(title) ==
  /\ statusText' = title
  /\ loading' = FALSE

(***************************************************************************)
(* Initial states: the viewer page right after its main execution.  With   *)
(* no url parameter the drop zone is shown and nothing is loaded; with one *)
(* loadParquet(fileUrl, true) has run up to its first await and races the  *)
(* 30 s timer.                                                             *)
(***************************************************************************)
\* the values of the url parameter the model opens the viewer with
UrlInputs == {"a.parquet", "bad.parquet"}

\* what a user can drop on the drop zone
DropInputs == (Sources \ {"huge.parquet", "types.parquet"}) \cup {"notes.txt"}

\* file?.name.endsWith('.parquet')
isParquetName(name) == name \in Sources

InitWith(url, c, f) ==
  /\ currentSource = url
  /\ offset = 0
  /\ totalRows = 0
  /\ columns = <<>>
  /\ sortColumn = Null
  /\ sortDirection = Null
  /\ filters = <<>>
  /\ columnMeta = NoMeta
  /\ rowOffset = 0
  /\ statusText = IF url = Null THEN "drop" ELSE "loading"
  /\ loading = (url # Null)
  /\ tableState = "none"
  /\ tableCols = <<>>
  /\ tbody = <<>>
  /\ buttonsHidden = TRUE
  /\ moreDisabled = FALSE
  /\ moreLabel = "init"
  /\ moreRemaining = 0
  /\ loadAllDisabled = FALSE
  /\ timeouts = <<>>
  /\ fileUrl = url
  /\ timer = IF url = Null THEN "none" ELSE "pending"
  /\ raceSettled = FALSE
  /\ tasks = IF url = Null THEN <<>>
             ELSE << [Task EXCEPT !.kind = "load", !.pc = "schema",
                        !.q = schemaQuery(url), !.source = url, !.isUrl = TRUE,
                        !.trace = <<"schema">>] >>
  /\ opsLeft = MaxOps
  /\ faultsLeft = f
  /\ cap = c
  /\ done = NoDone
  /\ burst = [n |-> IF url = Null THEN 0 ELSE 1,
              kinds |-> IF url = Null THEN {} ELSE {"load"}, failed |-> FALSE]
  /\ chain = (url # Null)
  /\ retrieved = <<>>
  /\ remCalc = NoRemCalc
  /\ metaSrc = Null
  /\ metaUse = MetaUse(Null, Null)
  /\ lastLoad = [src |-> Null, trace |-> <<>>, nAll |-> 0, total |-> 0, ok |-> TRUE]
  /\ unhandled = FALSE
  /\ call = NoCall
  /\ pendingParquetTabs = <<>>
  /\ expiries = <<>>
  /\ navigating = <<>>
  /\ now = 0
  /\ handled = <<>>

Init == \E url \in {Null} \cup UrlInputs : InitWith(url, MaxInflight, MaxFaults)

\* one transition at a time, and an engine that fails only on what it must reject
InitSeq == \E url \in {Null} \cup UrlInputs : InitWith(url, 1, 0)

\* a user event can be taken
MayStart ==
  /\ opsLeft > 0
  /\ Len(tasks) < cap

(***************************************************************************)
(* Load: ondrop -> handleLocalFile -> loadParquet, and loadParquet's steps.*)
(***************************************************************************)
\* /^(INTEGER|BIGINT|DOUBLE|FLOAT|DECIMAL|NUMERIC|REAL|SMALLINT|TINYINT)/i
isNumeric(type) == type \in {"INTEGER", "BIGINT", "DOUBLE", "FLOAT", "DECIMAL(10,2)",
                             "NUMERIC", "REAL", "SMALLINT", "TINYINT"}

\* /^(DATE|TIMESTAMP|TIME)/i
isDate(type) == type \in {"DATE", "TIMESTAMP", "TIMESTAMP WITH TIME ZONE", "TIME"}

ColMeta(filterType, type, values) ==
  [filterType |-> filterType, type |-> type, values |-> values]

\* a variant of isEmptyFile that lets an empty file through (compare C8)
isEmptyFileNegative(n) == n < 0

\* loadParquet's test for an empty file: totalRows === 0
isEmptyFile(n) == n = 0

RECURSIVE scanMeta(_, _, _)
\* getColumnMeta's loop from column k on, up to the next column it must probe
scanMeta(cols, k, meta) ==
  IF k > Len(cols) THEN [k |-> k, meta |-> meta]
  ELSE IF isNumeric(cols[k].type)
  THEN scanMeta(cols, k + 1, (cols[k].name :> ColMeta("range", cols[k].type, <<>>)) @@ meta)
  ELSE IF isDate(cols[k].type)
  THEN scanMeta(cols, k + 1, (cols[k].name :> ColMeta("date", cols[k].type, <<>>)) @@ meta)
  ELSE [k |-> k, meta |-> meta]

\* loadParquet from getColumnMeta's loop at column k to its next await: a
\* cardinality probe, the HEAD request of getFileSize, or the first page
metaStep(t, meta, k) ==
  LET r == scanMeta(t.cols, k, meta)
  IN IF r.k <= Len(t.cols)
     THEN [t EXCEPT !.pc = "probe", !.k = r.k, !.meta = r.meta,
             !.q = distinctCountQuery(t.source, t.cols[r.k].name),
             !.trace = Append(t.trace, "probe")]
     ELSE IF t.isUrl
     THEN [t EXCEPT !.pc = "filesize", !.k = r.k, !.meta = r.meta,
             !.q = headRequest(t.source)]
     ELSE [t EXCEPT !.pc = "rows", !.k = r.k, !.meta = r.meta,
             !.q = rowsQuery(t.source, columns, CHUNK, 0, sortColumn, sortDirection,
                             filters, r.meta),
             !.trace = Append(t.trace, "rows")]

\* the globals metaStep writes: columnMeta once getColumnMeta has returned
MetaStepped(i, t) ==
  /\ tasks' = ReplaceAt(tasks, i, t)
  /\ columnMeta' = IF t.pc = "probe" THEN columnMeta ELSE t.meta
  /\ metaSrc' = IF t.pc = "probe" THEN metaSrc ELSE t.source
  /\ metaUse' = IF t.pc = "rows" THEN MetaUse(t.source, currentSource) ELSE metaUse

LoadEnded(t, total, ok) ==
  [src |-> t.source, trace |-> t.trace, nAll |-> t.nAll, total |-> total, ok |-> ok]

\* dropZone.ondrop
Drop(f) ==
  /\ fileUrl = Null
  /\ MayStart
  /\ f \in DropInputs
  /\ opsLeft' = opsLeft - 1
  /\ IF isParquetName(f)
     THEN /\ statusText' = "loading"
          /\ loading' = TRUE
          /\ tasks' = Append(tasks, [Task EXCEPT !.kind = "load", !.pc = "register",
                                       !.source = f])
          /\ burst' = Began("load")
          /\ chain' = (tasks = <<>>)
          /\ retrieved' = <<>>
          /\ done' = done
     ELSE /\ ShowError("Invalid file")
          /\ tasks' = tasks
          /\ done' = [NoDone EXCEPT !.kind = "invalidDrop"]
          /\ UNCHANGED <<burst, chain, retrieved>>
  /\ UNCHANGED <<session, tableState, tableCols, timeouts, tbody,
                 buttonsHidden, moreDisabled, moreLabel, moreRemaining,
                 loadAllDisabled, fileUrl, timer, raceSettled, faultsLeft, cap,
                 call, worker, remCalc, metaSrc, metaUse, lastLoad, unhandled>>

\* handleLocalFile after registerFileBuffer: loadParquet up to await getSchema
LoadRegistered(i) ==
  /\ i \in 1..Len(tasks)
  /\ tasks[i].kind = "load"
  /\ tasks[i].pc = "register"
  /\ currentSource' = tasks[i].source
  /\ sortColumn' = Null
  /\ sortDirection' = Null
  /\ filters' = <<>>
  /\ statusText' = "loading"
  /\ loading' = TRUE
  /\ tasks' = ReplaceAt(tasks, i, [tasks[i] EXCEPT !.pc = "schema",
                                     !.q = schemaQuery(tasks[i].source),
                                     !.trace = <<"schema">>])
  /\ UNCHANGED <<offset, totalRows, columns, columnMeta, rowOffset, tableState,
                 tableCols, timeouts, tbody, buttonsHidden, moreDisabled,
                 moreLabel, moreRemaining, loadAllDisabled, fileUrl, timer,
                 raceSettled, opsLeft, faultsLeft, cap, call, worker, history>>

\* loadParquet after await getSchema
LoadSchemaDone(i) ==
  /\ Answered(i, "load", "schema")
  /\ LET t == tasks[i]
         allCols == Disk[t.q.src].schema
         t2 == [t EXCEPT !.nAll = Len(allCols)]
     IN /\ columns' = SubSeq(allCols, 1, Min(Len(allCols), MAX_COLS))
        /\ IF Len(allCols) = 0
           THEN /\ statusText' = "nocols"
                /\ loading' = FALSE
                /\ tasks' = RemoveAt(tasks, i)
                /\ raceSettled' = (raceSettled \/ t.isUrl)
                /\ done' = Done("load", TRUE, t, 0, offset, FALSE)
                /\ lastLoad' = LoadEnded(t2, 0, TRUE)
           ELSE /\ statusText' = "loading"
                /\ loading' = loading
                /\ tasks' = ReplaceAt(tasks, i,
                              [t2 EXCEPT !.pc = "count", !.q = rowCountQuery(t.source),
                                         !.trace = Append(t.trace, "count")])
                /\ UNCHANGED <<raceSettled, done, lastLoad>>
  /\ UNCHANGED <<currentSource, offset, totalRows, sortColumn, sortDirection,
                 filters, columnMeta, rowOffset, tableState, tableCols,
                 timeouts, tbody, buttonsHidden, moreDisabled, moreLabel,
                 moreRemaining, loadAllDisabled, fileUrl, timer, opsLeft,
                 faultsLeft, cap, call, worker, burst, chain, retrieved, remCalc,
                 metaSrc, metaUse, unhandled>>

\* loadParquet after await getRowCount
LoadCountDone(i) ==
  /\ Answered(i, "load", "count")
  /\ LET t == tasks[i]
         n == CountOf(t.q)
     IN /\ totalRows' = n
        /\ IF isEmptyFile(n)
           THEN /\ statusText' = "empty"
                /\ loading' = FALSE
                /\ Rendered(renderRows(<<>>, columns, FALSE))
                /\ tasks' = RemoveAt(tasks, i)
                /\ raceSettled' = (raceSettled \/ t.isUrl)
                /\ done' = Done("load", TRUE, t, 0, offset, TRUE)
                /\ lastLoad' = LoadEnded(t, n, TRUE)
                /\ metaUse' = MetaUse(metaSrc, currentSource)
                /\ UNCHANGED <<columnMeta, metaSrc>>
           ELSE /\ statusText' = "loading"
                /\ loading' = loading
                /\ MetaStepped(i, metaStep([t EXCEPT !.cols = columns, !.count = n], NoMeta, 1))
                /\ UNCHANGED <<tableState, tableCols, timeouts, tbody,
                               rowOffset, raceSettled, done, lastLoad>>
  /\ UNCHANGED <<currentSource, offset, columns, sortColumn, sortDirection,
                 filters, buttonsHidden, moreDisabled, moreLabel,
                 moreRemaining, loadAllDisabled, fileUrl, timer, opsLeft,
                 faultsLeft, cap, call, worker, burst, chain, retrieved, remCalc,
                 unhandled>>

\* getColumnMeta after await COUNT(DISTINCT col); a failure is caught: text
LoadProbeDone(i, fail) ==
  /\ i \in 1..Len(tasks)
  /\ tasks[i].kind = "load"
  /\ tasks[i].pc = "probe"
  /\ fail \in BOOLEAN
  /\ Rejected(tasks[i].q) => fail
  /\ fail => (Rejected(tasks[i].q) \/ faultsLeft > 0)
  /\ faultsLeft' = IF fail /\ ~Rejected(tasks[i].q) THEN faultsLeft - 1 ELSE faultsLeft
  /\ LET t == tasks[i]
         col == t.cols[t.k]
         distinctCount == DistinctCountOf(t.q)
     IN IF ~fail /\ distinctCount <= CATEGORICAL_THRESHOLD /\ distinctCount > 0
        THEN /\ tasks' = ReplaceAt(tasks, i,
                           [t EXCEPT !.pc = "vals",
                                     !.q = distinctValsQuery(t.source, col.name),
                                     !.trace = Append(t.trace, "vals")])
             /\ UNCHANGED <<columnMeta, metaSrc, metaUse>>
        ELSE MetaStepped(i, metaStep(t, (col.name :> ColMeta("text", col.type, <<>>))
                                         @@ t.meta, t.k + 1))
  /\ UNCHANGED <<currentSource, offset, totalRows, columns, sortColumn,
                 sortDirection, filters, rowOffset, dom, fileUrl, timer,
                 raceSettled, opsLeft, cap, call, worker, done, burst, chain,
                 retrieved, remCalc, lastLoad, unhandled>>

\* getColumnMeta after await SELECT DISTINCT col; a failure is caught: text
LoadValsDone(i, fail) ==
  /\ i \in 1..Len(tasks)
  /\ tasks[i].kind = "load"
  /\ tasks[i].pc = "vals"
  /\ fail \in BOOLEAN
  /\ Rejected(tasks[i].q) => fail
  /\ fail => (Rejected(tasks[i].q) \/ faultsLeft > 0)
  /\ faultsLeft' = IF fail /\ ~Rejected(tasks[i].q) THEN faultsLeft - 1 ELSE faultsLeft
  /\ LET t == tasks[i]
         col == t.cols[t.k]
         values == Window(DistinctVals(t.q.src, t.q.col), t.q.limit, 0)
         m == IF fail THEN ColMeta("text", col.type, <<>>)
              ELSE ColMeta("select", col.type, values)
     IN MetaStepped(i, metaStep(t, (col.name :> m) @@ t.meta, t.k + 1))
  /\ UNCHANGED <<currentSource, offset, totalRows, columns, sortColumn,
                 sortDirection, filters, rowOffset, dom, fileUrl, timer,
                 raceSettled, opsLeft, cap, call, worker, done, burst, chain,
                 retrieved, remCalc, lastLoad, unhandled>>

\* loadParquet after await getFileSize (which never throws)
LoadFileSizeDone(i) ==
  /\ i \in 1..Len(tasks)
  /\ tasks[i].kind = "load"
  /\ tasks[i].pc = "filesize"
  /\ LET t == tasks[i]
     IN tasks' = ReplaceAt(tasks, i,
                   [t EXCEPT !.pc = "rows",
                             !.q = rowsQuery(t.source, columns, CHUNK, 0, sortColumn,
                                             sortDirection, filters, columnMeta),
                             !.trace = Append(t.trace, "rows")])
  /\ metaUse' = MetaUse(metaSrc, currentSource)
  /\ UNCHANGED <<session, dom, fileUrl, timer, raceSettled, opsLeft,
                 faultsLeft, cap, call, worker, done, burst, chain, retrieved, remCalc,
                 metaSrc, lastLoad, unhandled>>

\* the offset after the first page of a Load or of a reload
firstOffset(rows) == Len(rows)

\* loadParquet after await getRows: the first page, then updateButtons
LoadRowsDone(i) ==
  /\ Answered(i, "load", "rows")
  /\ LET t == tasks[i]
         rows == RowsOf(t.q)
     IN /\ offset' = firstOffset(rows)
        /\ Rendered(renderRows(rows, columns, FALSE))
        /\ statusText' = "ready"
        /\ loading' = FALSE
        /\ buttonsHidden' = FALSE
        /\ ShowRemaining(totalRows - offset')
        /\ tasks' = RemoveAt(tasks, i)
        /\ raceSettled' = (raceSettled \/ t.isUrl)
        /\ done' = Done("load", TRUE, t, Len(rows), offset', tbody' = rows)
        /\ retrieved' = rows
        /\ remCalc' = RemCalc("load", FALSE, <<>>)
        /\ metaUse' = MetaUse(metaSrc, currentSource)
        /\ lastLoad' = LoadEnded(t, t.count, TRUE)
  /\ UNCHANGED <<currentSource, totalRows, columns, sortColumn, sortDirection,
                 filters, columnMeta, loadAllDisabled, fileUrl, timer, opsLeft,
                 faultsLeft, cap, call, worker, burst, chain, metaSrc, unhandled>>

(***************************************************************************)
(* Sort and Filter: handleSort, handleFilter, handleRangeFilter and        *)
(* reloadData.                                                             *)
(***************************************************************************)
\* the values the model types into a text filter, a number input, a date input
TextInputs == {"ann", ""}

RangeInputs == {"101"}

DateInputs == {}

\* the column headers the model clicks
SortInputs == {"id", "name"}

\* the options of a select the model picks among: "All" and the first ones
SelectInputs(options) == {""} \cup {options[k] : k \in 1..Min(Len(options), 1)}

hasKey(filterMap, col) == \E k \in 1..Len(filterMap) : filterMap[k].col = col

\* filters[col], for a key that is present
valueOf(filterMap, col) ==
  filterMap[CHOOSE k \in 1..Len(filterMap) : filterMap[k].col = col].val

\* filters[col] = val
assign(filterMap, col, val) ==
  IF hasKey(filterMap, col)
  THEN [k \in 1..Len(filterMap) |->
          IF filterMap[k].col = col THEN [col |-> col, val |-> val] ELSE filterMap[k]]
  ELSE Append(filterMap, [col |-> col, val |-> val])

\* a variant of toggleSort that keeps the direction when the column changes
\* (compare C10)
toggleSortKeepingDirection(col, dir, colName) ==
  IF col = colName
  THEN [column |-> col, direction |-> IF dir = "ASC" THEN "DESC" ELSE "ASC"]
  ELSE [column |-> colName, direction |-> IF dir = Null THEN "ASC" ELSE dir]

\* the sort spec after handleSort(colName)
toggleSort(col, dir, colName) ==
  IF col = colName
  THEN [column |-> col, direction |-> IF dir = "ASC" THEN "DESC" ELSE "ASC"]
  ELSE [column |-> colName, direction |-> "ASC"]

\* the filter mapping after handleFilter(colName, value)
setFilter(filterMap, colName, value) == assign(filterMap, colName, Str(value))

\* a variant of setRangeFilter that starts from an empty pair every time
\* (compare C11)
setRangeFilterAfresh(filterMap, colName, rangeType, value) ==
  assign(filterMap, colName,
         IF rangeType = "min" THEN Obj(value, "") ELSE Obj("", value))

\* the filter mapping after handleRangeFilter(colName, rangeType, value)
setRangeFilter(filterMap, colName, rangeType, value) ==
  LET cur == IF hasKey(filterMap, colName) /\ valueOf(filterMap, colName).obj
             THEN valueOf(filterMap, colName)
             ELSE Obj("", "")
  IN assign(filterMap, colName,
            IF rangeType = "min" THEN Obj(value, cur.max) ELSE Obj(cur.min, value))

\* the offset handleSort, handleFilter and handleRangeFilter set before reloading
resetOffset == 0

\* reloadData up to await getRows, after a handler has written sort or filters
Reloading(by, arg) ==
  /\ MayStart
  /\ opsLeft' = opsLeft - 1
  /\ offset' = resetOffset
  /\ statusText' = "loading"
  /\ loading' = TRUE
  /\ tasks' = Append(tasks,
                [Task EXCEPT !.kind = "reload", !.pc = "rows", !.by = by, !.arg = arg,
                   !.q = rowsQuery(currentSource, columns, CHUNK, 0, sortColumn',
                                   sortDirection', filters', columnMeta)])
  /\ burst' = Began("reload")
  /\ chain' = (tasks = <<>>)
  /\ retrieved' = <<>>
  /\ metaUse' = MetaUse(metaSrc, currentSource)
  /\ UNCHANGED <<currentSource, totalRows, columns, columnMeta, rowOffset,
                 tableState, tableCols, tbody, buttonsHidden,
                 moreDisabled, moreLabel, moreRemaining, loadAllDisabled,
                 fileUrl, timer, raceSettled, faultsLeft, cap, call, worker, done,
                 remCalc, metaSrc, lastLoad, unhandled>>

\* a click on a column header
Sort(k) ==
  /\ tableState = "table"
  /\ k \in 1..Len(tableCols)
  /\ tableCols[k].name \in SortInputs
  /\ LET s == toggleSort(sortColumn, sortDirection, tableCols[k].name)
     IN /\ sortColumn' = s.column
        /\ sortDirection' = s.direction
  /\ filters' = filters
  /\ timeouts' = timeouts
  /\ Reloading("sort", tableCols[k].name)

\* a select changed, or a text input was edited while no callback was pending
\* and was left alone for 300 ms
Filter(k, value) ==
  /\ tableState = "table"
  /\ k \in 1..Len(tableCols)
  /\ \/ tableCols[k].input = "select" /\ value \in SelectInputs(tableCols[k].options)
     \/ tableCols[k].input = "text" /\ value \in TextInputs /\ timeouts = <<>>
  /\ filters' = setFilter(filters, tableCols[k].name, value)
  /\ UNCHANGED <<sortColumn, sortDirection, timeouts>>
  /\ Reloading("filter", tableCols[k].name)

\* a min or max input of a number or date column was edited while no callback
\* was pending and was left alone for 300 ms
RangeFilter(k, rangeType, value) ==
  /\ tableState = "table"
  /\ k \in 1..Len(tableCols)
  /\ rangeType \in {"min", "max"}
  /\ timeouts = <<>>
  /\ \/ tableCols[k].input = "range" /\ value \in RangeInputs
     \/ tableCols[k].input = "date" /\ value \in DateInputs
  /\ filters' = setRangeFilter(filters, tableCols[k].name, rangeType, value)
  /\ UNCHANGED <<sortColumn, sortDirection, timeouts>>
  /\ Reloading("range", tableCols[k].name)

\* clearTimeout(filterTimeout); filterTimeout = setTimeout(..., 300)
scheduled(pending, p) ==
  Append(SelectSeq(pending, LAMBDA x : ~x.held), p)

\* what an input event changes: the pending callbacks alone
Typed(p) ==
  /\ opsLeft > 0
  /\ timeouts' = scheduled(timeouts, p)
  /\ UNCHANGED <<session, statusText, loading, tableState, tableCols, tbody,
                 buttonsHidden, moreDisabled, moreLabel, moreRemaining,
                 loadAllDisabled, env, history, call, worker>>

\* the input event of a text input
EditText(k, value) ==
  /\ tableState = "table"
  /\ k \in 1..Len(tableCols)
  /\ tableCols[k].input = "text"
  /\ value \in TextInputs
  /\ Typed(Pending(tableCols[k].name, "", value))

\* the input or change event of a min or max input
EditRange(k, rangeType, value) ==
  /\ tableState = "table"
  /\ k \in 1..Len(tableCols)
  /\ rangeType \in {"min", "max"}
  /\ \/ tableCols[k].input = "range" /\ value \in RangeInputs
     \/ tableCols[k].input = "date" /\ value \in DateInputs
  /\ Typed(Pending(tableCols[k].name, rangeType, value))

\* 300 ms after it was scheduled the oldest pending callback runs handleFilter
\* or handleRangeFilter
DebounceFired ==
  /\ timeouts # <<>>
  /\ LET p == Head(timeouts)
     IN /\ filters' = IF p.rangeType = ""
                      THEN setFilter(filters, p.col, p.value)
                      ELSE setRangeFilter(filters, p.col, p.rangeType, p.value)
        /\ timeouts' = Tail(timeouts)
        /\ UNCHANGED <<sortColumn, sortDirection>>
        /\ Reloading(IF p.rangeType = "" THEN "filter" ELSE "range", p.col)

\* the end of reloadData's try block, from renderRows on
Reloaded(i, t, rows, filteredCount, queried) ==
  /\ Rendered(renderRows(rows, columns, FALSE))
  /\ statusText' = "ready"
  /\ loading' = FALSE
  /\ ShowRemaining(filteredCount - offset')
  /\ tasks' = RemoveAt(tasks, i)
  /\ done' = Done("reload", TRUE, t, Len(rows), offset', tbody' = rows)
  /\ remCalc' = RemCalc("reload", queried, t.filt)

\* reloadData after await getRows
ReloadRowsDone(i) ==
  /\ Answered(i, "reload", "rows")
  /\ LET t == tasks[i]
         rows == RowsOf(t.q)
     IN /\ offset' = firstOffset(rows)
        /\ retrieved' = rows
        /\ IF hasFilters(filters)
           THEN /\ tasks' = ReplaceAt(tasks, i,
                              [t EXCEPT !.pc = "count", !.rows = rows, !.filt = filters,
                                 !.q = filteredCountQuery(currentSource, filters,
                                                          columnMeta)])
                /\ UNCHANGED <<statusText, loading, tableState, tableCols,
                               timeouts, tbody, rowOffset, moreDisabled,
                               moreLabel, moreRemaining, done, remCalc>>
           ELSE Reloaded(i, t, rows, totalRows, FALSE)
  /\ metaUse' = MetaUse(metaSrc, currentSource)
  /\ UNCHANGED <<currentSource, totalRows, columns, sortColumn, sortDirection,
                 filters, columnMeta, buttonsHidden, loadAllDisabled, fileUrl,
                 timer, raceSettled, opsLeft, faultsLeft, cap, call, worker, burst,
                 chain, metaSrc, lastLoad, unhandled>>

\* reloadData after await getFilteredRowCount
ReloadCountDone(i) ==
  /\ Answered(i, "reload", "count")
  /\ offset' = offset
  /\ Reloaded(i, tasks[i], tasks[i].rows, CountOf(tasks[i].q), TRUE)
  /\ metaUse' = MetaUse(metaSrc, currentSource)
  /\ UNCHANGED <<currentSource, totalRows, columns, sortColumn, sortDirection,
                 filters, columnMeta, buttonsHidden, loadAllDisabled, fileUrl,
                 timer, raceSettled, opsLeft, faultsLeft, cap, call, worker, burst,
                 chain, retrieved, metaSrc, lastLoad, unhandled>>

(***************************************************************************)
(* LoadMore.                                                               *)
(***************************************************************************)
\* the offset after a page or batch was appended
advance(off, rows) == off + Len(rows)

\* a variant of fetchOffset that fetches the last row shown again (compare C2)
fetchOffsetOverlapping == offset - 1

\* the offset loadMore fetches at
fetchOffset == offset

\* moreBtn.onclick, or Space: loadMore up to await getRows
LoadMore ==
  /\ ~moreDisabled
  /\ ~buttonsHidden
  /\ MayStart
  /\ opsLeft' = opsLeft - 1
  /\ moreDisabled' = TRUE
  /\ moreLabel' = "loading"
  /\ tasks' = Append(tasks,
                [Task EXCEPT !.kind = "loadMore", !.pc = "rows", !.by = "more",
                   !.q = rowsQuery(currentSource, columns, CHUNK, fetchOffset,
                                   sortColumn, sortDirection, filters, columnMeta)])
  /\ burst' = Began("loadMore")
  /\ chain' = (chain /\ tasks = <<>>)
  /\ metaUse' = MetaUse(metaSrc, currentSource)
  /\ UNCHANGED <<session, statusText, loading, tableState, tableCols, timeouts,
                 tbody, buttonsHidden, moreRemaining, loadAllDisabled, fileUrl,
                 timer, raceSettled, faultsLeft, cap, call, worker, done, retrieved,
                 remCalc, metaSrc, lastLoad, unhandled>>

\* loadMore after await getRows
LoadMoreRowsDone(i) ==
  /\ Answered(i, "loadMore", "rows")
  /\ LET t == tasks[i]
         rows == RowsOf(t.q)
         r == renderRows(rows, columns, TRUE)
     IN /\ offset' = advance(offset, rows)
        /\ retrieved' = retrieved \o rows
        /\ Rendered(r)
        /\ IF r.threw
           THEN /\ ShowError(handleError("Cannot read properties of null"))
                /\ tasks' = RemoveAt(tasks, i)
                /\ done' = Done("loadMore", FALSE, t, Len(rows), offset', FALSE)
                /\ burst' = [burst EXCEPT !.failed = TRUE]
                /\ chain' = FALSE
                /\ UNCHANGED <<moreDisabled, moreLabel, moreRemaining, remCalc, metaUse>>
           ELSE IF hasFilters(filters)
           THEN /\ tasks' = ReplaceAt(tasks, i,
                              [t EXCEPT !.pc = "count", !.rows = rows, !.filt = filters,
                                 !.q = filteredCountQuery(currentSource, filters,
                                                          columnMeta)])
                /\ metaUse' = MetaUse(metaSrc, currentSource)
                /\ UNCHANGED <<statusText, loading, moreDisabled, moreLabel,
                               moreRemaining, done, burst, chain, remCalc>>
           ELSE /\ ShowRemaining(totalRows - offset')
                /\ tasks' = RemoveAt(tasks, i)
                /\ done' = Done("loadMore", TRUE, t, Len(rows), offset', TRUE)
                /\ remCalc' = RemCalc("loadMore", FALSE, <<>>)
                /\ UNCHANGED <<statusText, loading, burst, chain, metaUse>>
  /\ UNCHANGED <<currentSource, totalRows, columns, sortColumn, sortDirection,
                 filters, columnMeta, buttonsHidden, loadAllDisabled, fileUrl,
                 timer, raceSettled, opsLeft, faultsLeft, cap, call, worker, metaSrc,
                 lastLoad, unhandled>>

\* loadMore after await getFilteredRowCount
LoadMoreCountDone(i) ==
  /\ Answered(i, "loadMore", "count")
  /\ ShowRemaining(CountOf(tasks[i].q) - offset)
  /\ tasks' = RemoveAt(tasks, i)
  /\ done' = Done("loadMore", TRUE, tasks[i], Len(tasks[i].rows), offset, TRUE)
  /\ remCalc' = RemCalc("loadMore", TRUE, tasks[i].filt)
  /\ UNCHANGED <<session, statusText, loading, tableState, tableCols, timeouts,
                 tbody, buttonsHidden, loadAllDisabled, fileUrl, timer,
                 raceSettled, opsLeft, faultsLeft, cap, call, worker, burst, chain,
                 retrieved, metaSrc, metaUse, lastLoad, unhandled>>

(***************************************************************************)
(* LoadAll.                                                                *)
(***************************************************************************)
\* a variant of proceeds that never asks (compare C13)
proceedsUnasked(filteredCount, confirmed) == filteredCount - offset > 0

\* loadAll between its count and its loop: whether it goes on to fetch
proceeds(filteredCount, confirmed) ==
  LET remaining == filteredCount - offset
  IN remaining > 0 /\ (remaining > WARN_THRESHOLD => confirmed)

\* loadAll's next batch
batchQuery ==
  rowsQuery(currentSource, columns, BATCH, offset', sortColumn, sortDirection,
            filters, columnMeta)

\* loadAll from its remaining-count check to await getRows in the loop
LoadAllDecided(t, queried, filteredCount, confirmed) ==
  /\ remCalc' = RemCalc("loadAll", queried, t.filt)
  /\ IF proceeds(filteredCount, confirmed)
     THEN /\ loadAllDisabled' = TRUE
          /\ moreDisabled' = TRUE
          /\ metaUse' = MetaUse(metaSrc, currentSource)
          /\ done' = done
     ELSE /\ done' = Done("loadAll", TRUE, t, 0, offset, FALSE)
          /\ UNCHANGED <<loadAllDisabled, moreDisabled, metaUse>>

\* loadAllBtn.onclick: loadAll up to its first await
LoadAll(confirmed) ==
  /\ ~loadAllDisabled
  /\ ~buttonsHidden
  /\ MayStart
  /\ confirmed \in BOOLEAN
  /\ opsLeft' = opsLeft - 1
  /\ offset' = offset
  /\ burst' = Began("loadAll")
  /\ chain' = FALSE
  /\ LET t == [Task EXCEPT !.kind = "loadAll", !.by = "all", !.filt = filters]
     IN IF hasFilters(filters)
        THEN /\ tasks' = Append(tasks,
                           [t EXCEPT !.pc = "count0",
                              !.q = filteredCountQuery(currentSource, filters,
                                                       columnMeta)])
             /\ metaUse' = MetaUse(metaSrc, currentSource)
             /\ UNCHANGED <<loadAllDisabled, moreDisabled, remCalc, done>>
        ELSE /\ LoadAllDecided(t, FALSE, totalRows, confirmed)
             /\ tasks' = IF proceeds(totalRows, confirmed)
                         THEN Append(tasks, [t EXCEPT !.pc = "batch",
                                               !.count = totalRows, !.q = batchQuery])
                         ELSE tasks
  /\ UNCHANGED <<currentSource, totalRows, columns, sortColumn, sortDirection,
                 filters, columnMeta, rowOffset, statusText, loading,
                 tableState, tableCols, timeouts, tbody, buttonsHidden,
                 moreLabel, moreRemaining, fileUrl, timer, raceSettled,
                 faultsLeft, cap, call, worker, retrieved, metaSrc, lastLoad,
                 unhandled>>

\* loadAll after await getFilteredRowCount
LoadAllCountDone(i, confirmed) ==
  /\ Answered(i, "loadAll", "count0")
  /\ confirmed \in BOOLEAN
  /\ offset' = offset
  /\ LET t == tasks[i]
         filteredCount == CountOf(t.q)
     IN /\ LoadAllDecided(t, TRUE, filteredCount, confirmed)
        /\ tasks' = IF proceeds(filteredCount, confirmed)
                    THEN ReplaceAt(tasks, i, [t EXCEPT !.pc = "batch",
                                                !.count = filteredCount,
                                                !.q = batchQuery])
                    ELSE RemoveAt(tasks, i)
  /\ UNCHANGED <<currentSource, totalRows, columns, sortColumn, sortDirection,
                 filters, columnMeta, rowOffset, statusText, loading,
                 tableState, tableCols, timeouts, tbody, buttonsHidden,
                 moreLabel, moreRemaining, fileUrl, timer, raceSettled,
                 opsLeft, faultsLeft, cap, call, worker, burst, chain, retrieved,
                 metaSrc, lastLoad, unhandled>>

\* loadAll after await getRows in the loop
LoadAllBatchDone(i) ==
  /\ Answered(i, "loadAll", "batch")
  /\ LET t == tasks[i]
         rows == RowsOf(t.q)
         r == renderRows(rows, columns, TRUE)
     IN IF Len(rows) = 0
        THEN /\ moreLabel' = "all"
             /\ moreDisabled' = TRUE
             /\ loadAllDisabled' = TRUE
             /\ tasks' = RemoveAt(tasks, i)
             /\ done' = Done("loadAll", TRUE, t, 0, offset, TRUE)
             /\ UNCHANGED <<offset, rowOffset, tableState, tableCols, timeouts,
                            tbody, statusText, loading, retrieved, metaUse,
                            burst>>
        ELSE /\ offset' = advance(offset, rows)
             /\ retrieved' = retrieved \o rows
             /\ Rendered(r)
             /\ IF r.threw
                THEN /\ ShowError(handleError("Cannot read properties of null"))
                     /\ tasks' = RemoveAt(tasks, i)
                     /\ done' = Done("loadAll", FALSE, t, Len(rows), offset', FALSE)
                     /\ burst' = [burst EXCEPT !.failed = TRUE]
                     /\ UNCHANGED <<moreLabel, moreDisabled, loadAllDisabled, metaUse>>
                ELSE IF offset' < t.count
                THEN /\ tasks' = ReplaceAt(tasks, i, [t EXCEPT !.q = batchQuery])
                     /\ metaUse' = MetaUse(metaSrc, currentSource)
                     /\ UNCHANGED <<moreLabel, moreDisabled, loadAllDisabled,
                                    statusText, loading, done, burst>>
                ELSE /\ moreLabel' = "all"
                     /\ moreDisabled' = TRUE
                     /\ loadAllDisabled' = TRUE
                     /\ tasks' = RemoveAt(tasks, i)
                     /\ done' = Done("loadAll", TRUE, t, Len(rows), offset', TRUE)
                     /\ UNCHANGED <<statusText, loading, metaUse, burst>>
  /\ UNCHANGED <<currentSource, totalRows, columns, sortColumn, sortDirection,
                 filters, columnMeta, buttonsHidden, moreRemaining, fileUrl,
                 timer, raceSettled, opsLeft, faultsLeft, cap, call, worker, chain,
                 remCalc, metaSrc, lastLoad, unhandled>>

(***************************************************************************)
(* Failures and the timeout of the main load.                              *)
(***************************************************************************)
\* the awaits that are not inside a try block of their own function
Throwing(t) ==
  \/ t.kind = "load" /\ t.pc \in {"schema", "count", "rows"}
  \/ t.kind \in {"reload", "loadMore"} /\ t.pc \in {"rows", "count"}
  \/ t.kind = "loadAll" /\ t.pc \in {"count0", "batch"}

\* whether some catch block hands the rejection of task t's await to handleError
caught(t) ==
  CASE t.kind = "load" -> ~(t.isUrl /\ raceSettled)
    [] t.kind = "loadAll" -> t.pc = "batch"
    [] OTHER -> TRUE

\* the message of the error a failing query rejects with
errorOf(q) ==
  IF \E k \in 1..Len(q.where) : q.where[k].kind = "throw" THEN "val.replace is not a function"
  ELSE IF q.src \notin Sources \/ ~Disk[q.src].ok THEN "Invalid Input Error: No magic bytes found at end of file"
  ELSE IF Rejected(q) THEN "Binder Error: column not found"
  ELSE "Failed to fetch"

\* the awaited query of task i fails: the engine rejects it, or fails this once
QueryFailed(i) ==
  /\ i \in 1..Len(tasks)
  /\ Throwing(tasks[i])
  /\ Rejected(tasks[i].q) \/ faultsLeft > 0
  /\ faultsLeft' = IF Rejected(tasks[i].q) THEN faultsLeft ELSE faultsLeft - 1
  /\ LET t == tasks[i]
     IN /\ statusText' = IF caught(t) THEN handleError(errorOf(t.q)) ELSE statusText
        /\ loading' = IF caught(t) THEN FALSE ELSE loading
        /\ unhandled' = (unhandled \/ ~(caught(t) \/ t.kind = "load"))
        /\ raceSettled' = (raceSettled \/ (t.kind = "load" /\ t.isUrl))
        /\ tasks' = RemoveAt(tasks, i)
        /\ done' = Done(t.kind, FALSE, t, 0, offset, FALSE)
        /\ lastLoad' = IF t.kind = "load" THEN LoadEnded(t, t.count, FALSE) ELSE lastLoad
  /\ burst' = [burst EXCEPT !.failed = TRUE]
  /\ chain' = FALSE
  /\ UNCHANGED <<session, tableState, tableCols, timeouts, tbody,
                 buttonsHidden, moreDisabled, moreLabel, moreRemaining,
                 loadAllDisabled, fileUrl, timer, opsLeft, cap, call, worker,
                 retrieved, remCalc, metaSrc, metaUse>>

\* the 30 s timer fires while Promise.race is unsettled: the race rejects and
\* the main execution's catch calls handleError; loadParquet itself goes on
Timeout ==
  /\ timer = "pending"
  /\ ~raceSettled
  /\ timer' = "fired"
  /\ raceSettled' = TRUE
  /\ ShowError(handleError(TimeoutMessage))
  /\ done' = [NoDone EXCEPT !.kind = "timeout", !.ok = FALSE]
  /\ UNCHANGED <<session, tableState, tableCols, timeouts, tbody,
                 buttonsHidden, moreDisabled, moreLabel, moreRemaining,
                 loadAllDisabled, fileUrl, tasks, opsLeft, faultsLeft, cap,
                 call, worker, burst, chain, retrieved, remCalc, metaSrc, metaUse,
                 lastLoad, unhandled>>

(***************************************************************************)
(* The specifications.                                                     *)
(***************************************************************************)
Next ==
  \/ \E f \in DropInputs : Drop(f)
  \/ \E i \in DOMAIN tasks : LoadRegistered(i)
  \/ \E i \in DOMAIN tasks : LoadSchemaDone(i)
  \/ \E i \in DOMAIN tasks : LoadCountDone(i)
  \/ \E i \in DOMAIN tasks, fail \in BOOLEAN : LoadProbeDone(i, fail)
  \/ \E i \in DOMAIN tasks, fail \in BOOLEAN : LoadValsDone(i, fail)
  \/ \E i \in DOMAIN tasks : LoadFileSizeDone(i)
  \/ \E i \in DOMAIN tasks : LoadRowsDone(i)
  \/ \E k \in DOMAIN tableCols : Sort(k)
  \/ \E k \in DOMAIN tableCols, value \in TextInputs \cup {"bob", "cy", "dee"} : Filter(k, value)
  \/ \E k \in DOMAIN tableCols, rangeType \in {"min", "max"},
        value \in RangeInputs \cup DateInputs : RangeFilter(k, rangeType, value)
  \/ \E i \in DOMAIN tasks : ReloadRowsDone(i)
  \/ \E i \in DOMAIN tasks : ReloadCountDone(i)
  \/ LoadMore
  \/ \E i \in DOMAIN tasks : LoadMoreRowsDone(i)
  \/ \E i \in DOMAIN tasks : LoadMoreCountDone(i)
  \/ \E confirmed \in BOOLEAN : LoadAll(confirmed)
  \/ \E i \in DOMAIN tasks, confirmed \in BOOLEAN : LoadAllCountDone(i, confirmed)
  \/ \E i \in DOMAIN tasks : LoadAllBatchDone(i)
  \/ \E i \in DOMAIN tasks : QueryFailed(i)
  \/ Timeout

\* overlapping transitions, results in any order
Spec == Init /\ [][Next]_vars

\* every transition starts after the previous one has ended
SpecSeq == InitSeq /\ [][Next]_vars

\* one transition at a time, on the drop zone or on a remote file of more rows
\* than WARN_THRESHOLD and BATCH
InitAll == \E url \in {Null, "huge.parquet"} : InitWith(url, 1, 0)

SpecAll == InitAll /\ [][Next]_vars

\* one transition at a time, and an engine that fails once more than MaxFaults
\* times on a query it could answer
InitFaulty ==
  \E url \in {Null, "types.parquet"} \cup UrlInputs : InitWith(url, 1, MaxFaults + 1)

SpecFaulty == InitFaulty /\ [][Next]_vars

\* the same with a user who types faster than the 300 ms of the debounce
NextDebounce ==
  \/ Next
  \/ \E k \in DOMAIN tableCols, value \in TextInputs : EditText(k, value)
  \/ \E k \in DOMAIN tableCols, rangeType \in {"min", "max"},
        value \in RangeInputs \cup DateInputs : EditRange(k, rangeType, value)
  \/ DebounceFired

SpecDebounce == InitSeq /\ [][NextDebounce]_vars

(***************************************************************************)
(* Direct calls of the module's functions, as its unit tests make them:    *)
(* one call in a run, the functions keeping nothing from call to call.     *)
(***************************************************************************)
\* the errors handed to handleError
ErrorInputs == DOMAIN toLowerCase \cup {Null}

\* the filter values of a direct call
ValueInputs == {Str(""), Str(" "), Str("ann"), Str("100%"), Str("o'k"),
                Str("a_b\\"), Str("'%\\'_"), Obj("", ""), Obj("18", ""),
                Obj("18", "65"), Obj("", "2024-01-04"), Obj("abc", ""),
                Obj("18abc", "abc"), Obj("2024-01-02", "2024-01-04"),
                Obj("2024-1-2", "")}

\* the filter mappings of a direct call: entries of up to two columns
MapInputs ==
  LET EntryInputs == [col : {"id", "name", "created"}, val : ValueInputs]
  IN {<<>>} \cup {<<e>> : e \in EntryInputs}
            \cup {p \in {<<e, f>> : e \in EntryInputs, f \in EntryInputs} :
                    p[1].col # p[2].col}

\* the column metadata of a direct call: none, that of a.parquet, and one with
\* a text and a DATE column
MetaInputs ==
  {NoMeta,
   ("id" :> ColMeta("range", "INTEGER", <<>>))
     @@ ("name" :> ColMeta("select", "VARCHAR", <<"ann", "bob", "cy">>))
     @@ ("created" :> ColMeta("date", "TIMESTAMP", <<>>)),
   ("id" :> ColMeta("range", "INTEGER", <<>>))
     @@ ("name" :> ColMeta("text", "VARCHAR", <<>>))
     @@ ("created" :> ColMeta("date", "DATE", <<>>))}

\* the page of a direct call: opened with no url parameter, with an https
\* one or with a file one
InitCalls == \E url \in {Null, "a.parquet"} \cup LocalUrls : InitWith(url, 1, 0)

\* handleError(error)
HandleError(error) ==
  /\ call = NoCall
  /\ error \in ErrorInputs
  /\ ShowError(handleError(error))
  /\ call' = Call("handleError", error, <<>>, NoMeta, handleError(error), <<>>, NoQuery)
  /\ UNCHANGED <<session, tableState, tableCols, tbody, buttonsHidden, moreDisabled,
                 moreLabel, moreRemaining, loadAllDisabled, timeouts, env, history, worker>>

\* buildFilterClauses(filterMap, colMeta), and the query getRows composes of it
BuildFilterClauses(filterMap, colMeta) ==
  /\ call = NoCall
  /\ filterMap \in MapInputs
  /\ colMeta \in MetaInputs
  /\ call' = Call("buildFilterClauses", Null, filterMap, colMeta, "",
                  buildFilterClauses(filterMap, colMeta),
                  rowsQuery("a.parquet", Abc, CHUNK, 0, Null, Null, filterMap, colMeta))
  /\ UNCHANGED <<session, dom, env, history, worker>>

\* the characters of the strings handed to the escaping primitives
Alphabet == {"a", "&", "<", ">", "\"", "'", "\\", "%", "_"}

\* the values handed to the escaping primitives: every string of up to
\* MaxLen characters, an entity, names of 30 and 31 characters, numbers, null
\* and undefined
JsInputs ==
  {Js("string", chars, 0) :
     chars \in UNION {[1..n -> Alphabet] : n \in 0..MaxLen}
                \cup {<<"&", "a", "m", "p", ";">>,
                      [k \in 1..30 |-> "a"], [k \in 1..31 |-> "a"]}}
    \cup {Js("number", <<>>, n) : n \in {0, 42, 0 - 7}}
    \cup {Js("null", <<>>, 0), Js("undefined", <<>>, 0)}

\* a call of an escaping primitive with its arguments, and what it gives
Escaped(fn, args, returned) ==
  [NoCall EXCEPT !.fn = fn, !.args = args, !.returned = returned]

EscapeHtml(str) ==
  /\ call = NoCall
  /\ call' = Escaped("escapeHtml", <<str>>, escapeHtml(str))
  /\ UNCHANGED <<session, dom, env, history, worker>>

EscapeSource(source) ==
  /\ call = NoCall
  /\ call' = Escaped("escapeSource", <<source>>, escapeSource(source))
  /\ UNCHANGED <<session, dom, env, history, worker>>

EscapeLikePattern(str) ==
  /\ call = NoCall
  /\ call' = Escaped("escapeLikePattern", <<str>>, escapeLikePattern(str))
  /\ UNCHANGED <<session, dom, env, history, worker>>

EscapeColumnName(name) ==
  /\ call = NoCall
  /\ call' = Escaped("escapeColumnName", <<name>>, escapeColumnName(name))
  /\ UNCHANGED <<session, dom, env, history, worker>>

\* truncateColumnName(name) with the default maxLen = 30, and
\* truncateColumnName(name, maxLen)
TruncateColumnName(name, maxLen) ==
  /\ call = NoCall
  /\ call' = Escaped("truncateColumnName", <<name, Js("number", <<>>, maxLen)>>,
                     truncateColumnName(name, maxLen))
  /\ UNCHANGED <<session, dom, env, history, worker>>

\* the inputs of a direct call: those of the set while no call was made yet
Uncalled(inputs) == IF call = NoCall THEN inputs ELSE {}

NextCalls ==
  \/ \E error \in Uncalled(ErrorInputs) : HandleError(error)
  \/ \E filterMap \in Uncalled(MapInputs), colMeta \in MetaInputs :
       BuildFilterClauses(filterMap, colMeta)
  \/ \E str \in Uncalled(JsInputs) : EscapeHtml(str)
  \/ \E source \in Uncalled(JsInputs) : EscapeSource(source)
  \/ \E str \in Uncalled(JsInputs) : EscapeLikePattern(str)
  \/ \E name \in Uncalled(JsInputs) : EscapeColumnName(name)
  \/ \E name \in Uncalled(JsInputs), maxLen \in {2, 30} :
       TruncateColumnName(name, maxLen)

SpecCalls == InitCalls /\ [][NextCalls]_vars

(***************************************************************************)
(* The service worker.  A URL is the sequence of its characters.           *)
(***************************************************************************)
\* String.prototype.endsWith
endsWith(str, suffix) ==
  /\ Len(suffix) <= Len(str)
  /\ SubSeq(str, Len(str) - Len(suffix) + 1, Len(str)) = suffix

\* /\.parquet([?#]|$)/i.test(url): ".parquet" in any case, followed by "?",
\* by "#" or by the end of the URL
testParquet(url) ==
  LET lower == ("P" :> "p") @@ ("A" :> "a") @@ ("R" :> "r") @@ ("Q" :> "q")
                 @@ ("U" :> "u") @@ ("E" :> "e") @@ ("T" :> "t")
  IN \E i \in 1..(Len(url) - 7) :
       /\ [k \in 1..8 |-> IF url[i + k - 1] \in DOMAIN lower
                           THEN lower[url[i + k - 1]] ELSE url[i + k - 1]]
            = <<".", "p", "a", "r", "q", "u", "e", "t">>
       /\ (i + 8 > Len(url) \/ url[i + 8] \in {"?", "#"})

\* the whole URL taken for its path
href(url) == url

\* new URL(url).pathname: from the slash that ends the authority up to the
\* query or the fragment, "/" when the URL has no path
pathname(url) ==
  LET colon == CHOOSE i \in 1..Len(url) :
                 url[i] = ":" /\ \A j \in 1..(i - 1) : url[j] # ":"
      first(stops) ==
        IF \E i \in (colon + 3)..Len(url) : url[i] \in stops
        THEN CHOOSE i \in (colon + 3)..Len(url) :
               url[i] \in stops /\ \A j \in (colon + 3)..(i - 1) : url[j] \notin stops
        ELSE Len(url) + 1
  IN IF first({"/", "?", "#"}) >= first({"?", "#"})
     THEN <<"/">>
     ELSE SubSeq(url, first({"/", "?", "#"}), first({"?", "#"}) - 1)

\* encodeURIComponent(str): letters, digits and - _ . ! ~ * ' ( ) stay, every
\* other character becomes % and the two hexadecimal digits of its code
encodeURIComponent(str) ==
  LET escapes == (":" :> <<"%", "3", "A">>) @@ ("/" :> <<"%", "2", "F">>)
                   @@ ("?" :> <<"%", "3", "F">>) @@ ("#" :> <<"%", "2", "3">>)
                   @@ ("=" :> <<"%", "3", "D">>) @@ ("%" :> <<"%", "2", "5">>)
                   @@ ("&" :> <<"%", "2", "6">>)
      RECURSIVE encoded(_)
      encoded(rest) ==
        IF rest = <<>> THEN <<>>
        ELSE (IF Head(rest) \in DOMAIN escapes THEN escapes[Head(rest)]
              ELSE <<Head(rest)>>) \o encoded(Tail(rest))
  IN encoded(str)

\* chrome.runtime.getURL('viewer.html') + '?url=' + encodeURIComponent(fileUrl):
\* the page viewer.html of the extension, whose id is "id"
getViewerUrl(file) ==
  <<"c", "h", "r", "o", "m", "e", "-", "e", "x", "t", "e", "n", "s", "i", "o", "n",
    ":", "/", "/", "i", "d", "/", "v", "i", "e", "w", "e", "r", ".", "h", "t", "m", "l">>
    \o <<"?", "u", "r", "l", "=">> \o encodeURIComponent(file)

\* what a listener did with a tab: nothing, chrome.tabs.update or
\* chrome.tabs.create (of a tab the browser numbers)
Opened(how, tabId, url) == [how |-> how, tabId |-> tabId, url |-> url]

\* an event of the browser: a navigation about to begin (details) or a
\* download created (downloadItem, whose url may be empty; its tabId is the
\* tab that was active, 0 when there was none), with the place in
\* `handled` of the event of the user it follows from, the number of
\* redirects between the two, and what the listener did
Event(kind, tabId, frameId, url, finalUrl, origin, hop, opened) ==
  [kind |-> kind, tabId |-> tabId, frameId |-> frameId, url |-> url,
   finalUrl |-> finalUrl, origin |-> origin, hop |-> hop, at |-> now,
   cancelled |-> (kind = "download" /\ opened.how # "none"), opened |-> opened]

\* the URLs of the user's events, all of one site: a .parquet file and a
\* file of another kind (plain), and with them a .parquet file with a query,
\* one spelt in capitals and a page whose query ends in .parquet (all)
Urls ==
  LET site == <<"h", "t", "t", "p", "s", ":", "/", "/", "h", "/">>
      plain == {site \o <<"a", ".", "p", "a", "r", "q", "u", "e", "t">>,
                site \o <<"a", ".", "c", "s", "v">>}
  IN [plain |-> plain,
      all |-> plain \cup
        {site \o <<"a", ".", "p", "a", "r", "q", "u", "e", "t", "?", "v", "=", "1">>,
         site \o <<"a", ".", "P", "A", "R", "Q", "U", "E", "T">>,
         site \o <<"x", "?", "f", "=", "a", ".", "p", "a", "r", "q", "u", "e", "t">>}]

\* the navigations of the user: of the main frame of tab 1 or of tab 2, or of
\* sub-frame 1 of tab 1
NavigationInputs(urls) ==
  {Event("navigation", frame[1], frame[2], url, <<>>, Len(handled) + 1, 0,
         Opened("none", 0, <<>>)) :
     frame \in {<<1, 0>>, <<2, 0>>, <<1, 1>>}, url \in urls}

\* the downloads of the user: of a URL, or of an item that has only a final
\* URL or none at all
DownloadInputs(urls) ==
  {Event("download", 0, 0, url, url, Len(handled) + 1, 0,
         Opened("none", 0, <<>>)) : url \in urls}
    \cup {Event("download", 0, 0, <<>>, finalUrl, Len(handled) + 1, 0,
                Opened("none", 0, <<>>)) :
            finalUrl \in {<<>>} \cup {url \in urls : testParquet(url)}}

\* the navigation chrome.tabs.update or chrome.tabs.create starts in the main
\* frame of the tab, which the browser announces later; the browser is
\* followed for MaxHops redirects in a row
started(event, opened) ==
  IF opened.how = "none" \/ event.hop >= MaxHops THEN <<>>
  ELSE <<Event("navigation", opened.tabId, 0, opened.url, <<>>, event.origin,
               event.hop + 1, Opened("none", 0, <<>>))>>

\* the onBeforeNavigate listener of background.js; `rest` is what the browser
\* has still to announce
OnBeforeNavigate(details, rest) ==
  LET opened == IF details.frameId # 0 THEN Opened("none", 0, <<>>)
                ELSE IF endsWith(pathname(details.url),
                                 <<".", "p", "a", "r", "q", "u", "e", "t">>)
                THEN Opened("update", details.tabId, getViewerUrl(details.url))
                ELSE Opened("none", 0, <<>>)
  IN /\ handled' = Append(handled, [details EXCEPT !.at = now, !.opened = opened])
     /\ navigating' = rest \o started(details, opened)
     /\ UNCHANGED <<session, dom, env, history, call, pendingParquetTabs, expiries, now>>

\* the user's events while fewer than MaxOps of them were handled
Unhandled(inputs) ==
  IF Len(SelectSeq(handled, LAMBDA event : event.hop = 0)) < MaxOps THEN inputs
  ELSE {}

NextWorker ==
  \/ \E details \in Unhandled(NavigationInputs(Urls.all)) :
       OnBeforeNavigate(details, navigating)
  \/ /\ navigating # <<>>
     /\ OnBeforeNavigate(Head(navigating), Tail(navigating))

\* the service worker of background.js, next to a page opened with no url
SpecWorker == InitWith(Null, 1, 0) /\ [][NextWorker]_vars

\* Layer 1 of the two-layer service worker: the onBeforeNavigate listener
\* that notes the tab and arms the timer that forgets it
OnBeforeNavigateLayer1(details, rest) ==
  LET matched == details.frameId = 0 /\ testParquet(details.url)
      opened == IF matched
                THEN Opened("update", details.tabId, getViewerUrl(details.url))
                ELSE Opened("none", 0, <<>>)
  IN /\ pendingParquetTabs' =
          IF matched
          THEN [url \in DOMAIN pendingParquetTabs \cup {details.url} |->
                  IF url = details.url THEN details.tabId ELSE pendingParquetTabs[url]]
          ELSE pendingParquetTabs
     /\ expiries' =
          IF matched
          THEN Append(expiries, [url |-> details.url, due |-> now + PENDING_MS])
          ELSE expiries
     /\ handled' = Append(handled, [details EXCEPT !.at = now, !.opened = opened])
     /\ navigating' = rest \o started(details, opened)
     /\ UNCHANGED <<session, dom, env, history, call, now>>

\* the callback of setTimeout(() => pendingParquetTabs.delete(details.url),
\* 30000), run when it is due; the callbacks are due in the order they were set
PendingExpired ==
  /\ expiries # <<>>
  /\ Head(expiries).due <= now
  /\ pendingParquetTabs' =
       [url \in DOMAIN pendingParquetTabs \ {Head(expiries).url} |->
          pendingParquetTabs[url]]
  /\ expiries' = Tail(expiries)
  /\ UNCHANGED <<session, dom, env, history, call, navigating, now, handled>>

\* Layer 2: the downloads.onCreated listener; `active` is the tab
\* chrome.tabs.query finds active in the current window (0: none), and a tab
\* chrome.tabs.create opens is tab 3
OnCreated(downloadItem, active) ==
  LET url == IF downloadItem.url # <<>> THEN downloadItem.url
             ELSE downloadItem.finalUrl
      matched == url # <<>> /\ testParquet(url)
      tabId == IF url \in DOMAIN pendingParquetTabs THEN pendingParquetTabs[url]
               ELSE 0
      opened == IF ~matched THEN Opened("none", 0, <<>>)
                ELSE IF tabId # 0 THEN Opened("update", tabId, getViewerUrl(url))
                ELSE IF active # 0 THEN Opened("update", active, getViewerUrl(url))
                ELSE Opened("create", 3, getViewerUrl(url))
  IN /\ pendingParquetTabs' =
          IF matched
          THEN [key \in DOMAIN pendingParquetTabs \ {url} |-> pendingParquetTabs[key]]
          ELSE pendingParquetTabs
     /\ handled' = Append(handled, [downloadItem EXCEPT !.tabId = active, !.at = now,
                                                        !.opened = opened,
                                                        !.cancelled = matched])
     /\ navigating' = navigating \o started(downloadItem, opened)
     /\ UNCHANGED <<session, dom, env, history, call, expiries, now>>

\* ten seconds pass, once the browser has announced the navigations that were
\* started and the timers that are due have run
Tick ==
  /\ navigating = <<>>
  /\ IF expiries = <<>> THEN TRUE ELSE Head(expiries).due > now
  /\ now < MaxTicks * (PENDING_MS \div 3)
  /\ now' = now + PENDING_MS \div 3
  /\ UNCHANGED <<session, dom, env, history, call, pendingParquetTabs, expiries,
                 navigating, handled>>

NextLayers ==
  \/ \E details \in Unhandled(NavigationInputs(Urls.plain)) :
       OnBeforeNavigateLayer1(details, navigating)
  \/ /\ navigating # <<>>
     /\ OnBeforeNavigateLayer1(Head(navigating), Tail(navigating))
  \/ \E downloadItem \in Unhandled(DownloadInputs(Urls.plain)), active \in {0, 2} :
       OnCreated(downloadItem, active)
  \/ PendingExpired
  \/ Tick

\* the two-layer service worker, next to a page opened with no url
SpecLayers == InitWith(Null, 1, 0) /\ [][NextLayers]_vars

(***************************************************************************)
(* What the session's state calls for.                                     *)
(***************************************************************************)
Idle == tasks = <<>>

\* the engine can read the current source
Readable == currentSource \in Sources /\ Disk[currentSource].ok

\* the WHERE clauses of the current filter mapping
Clauses == buildFilterClauses(filters, columnMeta)

\* the rows of the current source under the current filters, in the current order
Result == Matching(currentSource, Clauses, sortColumn, sortDirection)

FilteredCount == Len(Matching(currentSource, Clauses, Null, Null))

Page0 == Window(Result, CHUNK, 0)

\* the rows of a file, in any order
RowsOfFile(src) == {Row(src, i) : i \in 1..Disk[src].n}

(***************************************************************************)
(* C1..C10: paging, Load, Sort and Filter.                                 *)
(***************************************************************************)
\* C1: when Sort/Filter transitions overlapped and all have ended, the table,
\* the offset and the remaining count are those of the newest sort and filter
\* state, in whatever order the engine answered.
C1_NewestTransitionWins ==
  (Idle /\ burst.kinds = {"reload"} /\ burst.n >= 2 /\ ~burst.failed /\ Readable)
    => /\ tbody = Page0
       /\ offset = Len(Page0)
       /\ moreRemaining = FilteredCount - offset

\* C2: a Load or reload followed only by LoadMore, one at a time, that has
\* brought the remaining count to 0 has retrieved the filtered result: every
\* row once, in the engine's order, filteredCount rows in all.
C2_PagingRetrievesResult ==
  (Idle /\ chain /\ moreLabel = "count" /\ moreRemaining = 0 /\ Readable)
    => /\ retrieved = Result
       /\ Len(retrieved) = FilteredCount

\* C2's case: the last page was a short one, fetched by LoadMore
C2_Witness ==
  /\ Idle /\ chain /\ moreLabel = "count" /\ moreRemaining = 0
  /\ done.kind = "loadMore" /\ done.ok
  /\ done.n > 0 /\ done.n < CHUNK
  /\ Len(retrieved) > CHUNK

\* C3: the offset never exceeds the number of rows of the current filtered
\* result.
C3_OffsetWithinResult == (Idle /\ Readable) => offset <= FilteredCount

\* C4: every remaining count shown by a reload, LoadMore or LoadAll comes from
\* a count query issued under the filter mapping in force when it is shown, or,
\* with no filter active, from the cached total without a count query.
C4_CountOfCurrentFilters ==
  remCalc.by \in {"reload", "loadMore", "loadAll"}
    => /\ remCalc.active => remCalc.fresh
       /\ ~remCalc.active => ~remCalc.queried

\* C5: after a Load or a LoadMore that no other transition overlapped, the
\* remaining count shown is filteredCount - offset and LoadMore is disabled
\* exactly when that is <= 0.
C5_RemainingShown ==
  (Idle /\ done.kind \in {"load", "loadMore"} /\ done.ok /\ done.alone
        /\ ~buttonsHidden /\ Readable)
    => /\ moreLabel = "count"
       /\ moreRemaining = FilteredCount - offset
       /\ moreDisabled <=> (FilteredCount - offset <= 0)

\* C6: when a Load has ended, sort and filters are cleared, the offset counts
\* the rows this Load fetched (none if it ended before its first page), and the
\* total, the columns, the rows shown and the column metadata are this file's.
C6_LoadReplacesSession ==
  (Idle /\ done.kind = "load" /\ done.ok /\ Readable)
    => /\ sortColumn = Null /\ sortDirection = Null /\ filters = <<>>
       /\ offset = done.n
       /\ totalRows = Disk[currentSource].n
       /\ columns = SubSeq(Disk[currentSource].schema, 1,
                           Min(Len(Disk[currentSource].schema), MAX_COLS))
       /\ \A k \in DOMAIN tbody : tbody[k] \in RowsOfFile(currentSource)
       /\ columnMeta # NoMeta => metaSrc = currentSource

\* C7: no query and no rendering uses column metadata computed for another
\* file than the current one, and a Load that has ended leaves none behind.
C7_MetadataOfCurrentFile ==
  /\ metaUse.meta \in {Null, metaUse.cur}
  /\ (Idle /\ done.kind = "load" /\ done.ok) => metaSrc \in {Null, currentSource}

\* the order loadParquet's queries may come in: the schema, the row count, the
\* cardinality probes (each possibly followed by its distinct-values query),
\* and the first page last
Ordered8(trace) ==
  /\ Len(trace) >= 1 => trace[1] = "schema"
  /\ Len(trace) >= 2 => trace[2] = "count"
  /\ \A k \in 3..Len(trace) :
       \/ trace[k] = "probe"
       \/ trace[k] = "vals" /\ trace[k - 1] = "probe"
       \/ trace[k] = "rows" /\ k = Len(trace)

\* the query a Load task awaits is the one its log ends with
Awaits8(t) ==
  CASE t.pc = "schema" -> t.q = schemaQuery(t.source) /\ t.trace = <<"schema">>
    [] t.pc = "count" -> t.q = rowCountQuery(t.source) /\ t.trace = <<"schema", "count">>
    [] t.pc = "probe" -> t.q.type = "distinctCount" /\ t.trace[Len(t.trace)] = "probe"
    [] t.pc = "vals" -> t.q.type = "distinctVals" /\ t.trace[Len(t.trace)] = "vals"
    [] t.pc = "rows" -> /\ t.q.type = "rows" /\ t.q.off = 0 /\ t.q.limit = CHUNK
                        /\ t.trace[Len(t.trace)] = "rows"
    [] OTHER -> TRUE

\* the columns getColumnMeta probes: neither numeric nor date
Probed8(src) ==
  {k \in DOMAIN Disk[src].schema :
     ~isNumeric(Disk[src].schema[k].type) /\ ~isDate(Disk[src].schema[k].type)}

\* C8: a Load issues its queries in the order schema, row count, column
\* metadata probes, first page (offset 0, limit CHUNK); with no columns nothing
\* follows the schema query; with no rows no probe and no page is issued.
C8_LoadQueryOrder ==
  /\ \A i \in DOMAIN tasks :
       tasks[i].kind = "load" => Ordered8(tasks[i].trace) /\ Awaits8(tasks[i])
  /\ Ordered8(lastLoad.trace)
  /\ (lastLoad.src # Null /\ lastLoad.ok) =>
       /\ lastLoad.nAll = 0 => lastLoad.trace = <<"schema">>
       /\ (lastLoad.nAll > 0 /\ lastLoad.total = 0)
            => lastLoad.trace = <<"schema", "count">>
       /\ (lastLoad.nAll > 0 /\ lastLoad.total > 0)
            => /\ lastLoad.trace[Len(lastLoad.trace)] = "rows"
               /\ Cardinality({k \in DOMAIN lastLoad.trace :
                                 lastLoad.trace[k] = "probe"})
                    = Cardinality(Probed8(lastLoad.src))

\* C8's case: a Load that went through every stage has ended
C8_Witness ==
  /\ lastLoad.ok
  /\ lastLoad.trace = <<"schema", "count", "probe", "vals", "rows">>
  /\ done.kind = "load" /\ done.n = CHUNK

\* C9: a Sort/Filter transition that has ended has replaced the rows shown by
\* its page, and the offset is the number of rows of that page.
C9_ReloadShowsItsPage ==
  (done.kind = "reload" /\ done.ok) => (done.off = done.n /\ done.shown)

\* C10: a click on the sorted column flips ASC and DESC, a click on another
\* column sorts it ASC; the sort column is none exactly when the direction is.
C10_SortToggles ==
  /\ [](sortColumn = Null <=> sortDirection = Null)
  /\ [][\A k \in DOMAIN tableCols :
          Sort(k) =>
            /\ sortColumn' = tableCols[k].name
            /\ sortDirection' = IF sortColumn # tableCols[k].name THEN "ASC"
                                ELSE IF sortDirection = "ASC" THEN "DESC" ELSE "ASC"
            /\ sortColumn' # Null /\ sortDirection' \in {"ASC", "DESC"}]_vars

\* C10's cases: a second click on a column has made it DESC, and its reload
\* has ended
C10_Witness ==
  /\ Idle /\ done.kind = "reload" /\ done.by = "sort" /\ done.ok
  /\ sortColumn = "id" /\ sortDirection = "DESC"

(***************************************************************************)
(* C11..C20: filters, LoadAll, the debounce, errors and the clause builder.*)
(***************************************************************************)
\* the entries of every column but col, and the sort spec, are the same before
\* and after the step
FrameOf(col) ==
  /\ \A j \in 1..Len(filters) :
       filters[j].col # col => (j <= Len(filters') /\ filters'[j] = filters[j])
  /\ \A j \in 1..Len(filters') :
       filters'[j].col # col => (j <= Len(filters) /\ filters[j] = filters'[j])
  /\ sortColumn' = sortColumn
  /\ sortDirection' = sortDirection

\* C11: a Filter step changes only the entry of the edited column: a scalar
\* entry is replaced by the new value, a bound of a range or date entry is set
\* while the other bound of that column is kept, and every other column's
\* entry and the sort spec are unchanged.
C11_FilterFrame ==
  [][\A k \in DOMAIN tableCols :
       LET name == tableCols[k].name
       IN /\ \A v \in TextInputs \cup SelectInputs(tableCols[k].options) :
               Filter(k, v) =>
                 /\ FrameOf(name)
                 /\ hasKey(filters', name)
                 /\ valueOf(filters', name) = Str(v)
          /\ \A rt \in {"min", "max"} : \A v \in RangeInputs \cup DateInputs :
               RangeFilter(k, rt, v) =>
                 /\ FrameOf(name)
                 /\ hasKey(filters', name)
                 /\ LET new == valueOf(filters', name)
                        old == IF hasKey(filters, name) /\ valueOf(filters, name).obj
                               THEN valueOf(filters, name) ELSE Obj("", "")
                    IN /\ new.obj
                       /\ rt = "min" => (new.min = v /\ new.max = old.max)
                       /\ rt = "max" => (new.max = v /\ new.min = old.min)]_vars

\* C11's cases: the second bound of a range entry was set after the first
C11_Witness ==
  /\ done.kind = "reload" /\ done.by = "range" /\ done.ok
  /\ \E j \in 1..Len(filters) :
       filters[j].val.obj /\ filters[j].val.min # "" /\ filters[j].val.max # ""

\* C12: LoadAll appends each batch and advances the offset by it, fetches the
\* next batch at the offset so reached, and fetches no more once a batch is
\* shorter than BATCH or the offset has reached the filtered total.
C12_LoadAllStops ==
  [][\A i \in DOMAIN tasks :
       LoadAllBatchDone(i) =>
         LET rows == RowsOf(tasks[i].q)
             goesOn == Len(tasks') = Len(tasks) /\ tasks'[i].pc = "batch"
         IN /\ (Len(rows) < BATCH \/ offset' >= tasks[i].count) => ~goesOn
            /\ goesOn => tasks'[i].q.off = offset'
            /\ offset' = offset + Len(rows)
            /\ tableState = "table" => tbody' = tbody \o rows]_vars

\* what a step in which loadAll has computed remaining = filteredCount - offset
\* and has got the user's answer must do
Decision13(filteredCount, confirmed) ==
  LET remaining == filteredCount - offset
      fetching == \E j \in DOMAIN tasks' :
                    /\ tasks'[j].kind = "loadAll" /\ tasks'[j].pc = "batch"
                    /\ tasks'[j].q.type = "rows" /\ tasks'[j].q.limit = BATCH
      still == /\ ~fetching
               /\ UNCHANGED <<offset, tbody, rowOffset, moreDisabled, moreLabel,
                              moreRemaining, loadAllDisabled, buttonsHidden>>
  IN /\ remaining <= 0 => still
     /\ (remaining > WARN_THRESHOLD /\ ~confirmed) => still
     /\ (remaining > WARN_THRESHOLD /\ confirmed) => fetching
     /\ (remaining > 0 /\ remaining <= WARN_THRESHOLD) => fetching

\* C13: LoadAll with more than WARN_THRESHOLD rows remaining fetches nothing
\* and changes neither the offset, the rows shown nor the buttons unless the
\* user confirms; with 1..WARN_THRESHOLD rows remaining it fetches whatever
\* the answer would be; with none remaining it does nothing.
C13_LoadAllAsks ==
  [][\A confirmed \in BOOLEAN :
       /\ (LoadAll(confirmed) /\ ~hasFilters(filters))
            => Decision13(totalRows, confirmed)
       /\ \A i \in DOMAIN tasks :
            LoadAllCountDone(i, confirmed)
              => Decision13(CountOf(tasks[i].q), confirmed)]_vars

\* C13's cases: the user has declined to load the 10,050 rows that remain
C13_Witness ==
  /\ Idle /\ done.kind = "loadAll" /\ done.ok /\ ~done.shown
  /\ ~hasFilters(filters)
  /\ totalRows - offset > WARN_THRESHOLD
  /\ Len(tbody) = CHUNK

\* C14: a pending edit of a filter input leaves the pending callbacks only by
\* running its Filter transition or by a newer edit of the same input (which
\* then carries the last value); an edit of another input does not cancel it.
C14_PendingEditKept ==
  [][\A j \in DOMAIN timeouts :
       LET p == timeouts[j]
       IN \/ \E i \in DOMAIN timeouts' :
               timeouts'[i].col = p.col /\ timeouts'[i].rangeType = p.rangeType
          \/ /\ j = 1
             /\ Len(tasks') = Len(tasks) + 1
             /\ tasks'[Len(tasks')].kind = "reload"
             /\ tasks'[Len(tasks')].arg = p.col]_vars

\* C15: once the 30 s timer has won the race against the load of the url
\* parameter, no later step of that load writes the session or the page: the
\* error stays shown and nothing is shown as loading.
C15_TimeoutAbandonsLoad ==
  [][(/\ timer = "fired"
      /\ \E i \in DOMAIN tasks :
           /\ tasks[i].kind = "load" /\ tasks[i].isUrl
           /\ (Len(tasks') < Len(tasks) \/ tasks'[i] # tasks[i]))
       => UNCHANGED <<session, dom>>]_vars

\* C16: the error of the request timeout is shown as a network error.
C16_TimeoutIsNetworkError ==
  done.kind = "timeout" => statusText = "Network Error"

\* the kinds in their order of priority, each with its title and the
\* substrings that make an error one of it; remote: the substrings that do so
\* only on a page opened with an http(s) url
Kinds17 ==
  << [title |-> "CORS Error - Cannot access this file",
      known |-> {"cors", "cross-origin", "network error"},
      remote |-> {"failed to fetch"}],
     [title |-> "Network Error",
      known |-> {"failed to fetch", "networkerror", "network request failed", "net::"},
      remote |-> {}],
     [title |-> "Invalid Parquet File",
      known |-> {"parquet", "invalid", "not a valid", "magic number", "corrupted"},
      remote |-> {}] >>

\* the title of the first kind of which a substring occurs in text, the
\* substrings in remote counting when counted is TRUE
FirstKind17(text, counted) ==
  LET hit(k) == \/ Kinds17[k].known \cap occurring[text] # {}
                \/ counted /\ Kinds17[k].remote \cap occurring[text] # {}
  IN IF \E k \in 1..3 : hit(k)
     THEN Kinds17[CHOOSE k \in 1..3 : hit(k) /\ \A j \in 1..(k - 1) : ~hit(j)].title
     ELSE "Error"

\* C17 as stated: the kind shown for an error is the first kind, in the order
\* cross-origin, network, malformed file, of which a known substring occurs in
\* the lower-cased text, the generic kind if there is none: a function of the
\* text alone.
C17_KindOfTextAlone ==
  call.fn = "handleError" =>
    /\ statusText = call.title
    /\ call.title = FirstKind17(lowerMessage(call.error), TRUE)

\* C17, amended: the same, except that 'failed to fetch' makes an error a
\* cross-origin one only on a page opened with an http(s) url; elsewhere the
\* same text is a network error.
C17_KindOfTextAndUrl ==
  call.fn = "handleError" =>
    /\ statusText = call.title
    /\ call.title = FirstKind17(lowerMessage(call.error), startsWithHttp(fileUrl))

\* C17's cases: 'Failed to fetch' on a page opened with a file url
C17_Witness ==
  /\ call.fn = "handleError" /\ call.error = "Failed to fetch"
  /\ fileUrl \in LocalUrls
  /\ statusText = "Network Error"

\* C18: no failure of a query of Load, Sort, Filter, LoadMore or LoadAll
\* escapes the handlers as an unhandled rejection.
C18_NoUnhandledRejection == ~unhandled

\* buildFilterClauses was called and returned
Built == call.fn = "buildFilterClauses"
         /\ \A k \in DOMAIN call.clauses : call.clauses[k].kind # "throw"

\* the place of a column in the filter mapping, 0 if it has none
PlaceOf(filterMap, col) ==
  IF hasKey(filterMap, col)
  THEN CHOOSE k \in DOMAIN filterMap : filterMap[k].col = col
  ELSE 0

\* at most one clause per column, each of a column of the mapping, in the
\* order of the mapping
InMappingOrder ==
  /\ \A k \in DOMAIN call.clauses : PlaceOf(call.filterMap, call.clauses[k].col) > 0
  /\ \A j, k \in DOMAIN call.clauses :
       j < k => PlaceOf(call.filterMap, call.clauses[j].col)
                  < PlaceOf(call.filterMap, call.clauses[k].col)

Wrapped(c) == Len(c.sql) >= 2 /\ c.sql[1] = "(" /\ c.sql[Len(c.sql)] = ")"

\* C19 as stated: buildFilterClauses returns at most one clause per column, in
\* the order of the filter mapping, and every clause, of whatever
\* classification, is wrapped in parentheses.
C19_EveryClauseWrapped ==
  Built => /\ InMappingOrder
           /\ \A k \in DOMAIN call.clauses : Wrapped(call.clauses[k])

\* C19, amended: at most one clause per column, in the order of the filter
\* mapping; the clauses of range and date columns are wrapped in parentheses,
\* those of select and text columns are one bare predicate.
C19_RangeAndDateWrapped ==
  Built => /\ InMappingOrder
           /\ \A k \in DOMAIN call.clauses :
                LET c == call.clauses[k]
                IN /\ c.kind \in {"range", "date"} => Wrapped(c)
                   /\ c.kind = "eq" => c.sql = <<"=">>
                   /\ c.kind = "like" => c.sql = <<"CAST", "ILIKE", "ESCAPE">>

\* C19's cases: a range clause, then a select clause
C19_Witness ==
  /\ Built
  /\ Len(call.clauses) = 2
  /\ call.clauses[1].kind = "range" /\ call.clauses[1].sql = <<"(", ">=", "AND", "<=", ")">>
  /\ call.clauses[2].kind = "eq"

\* an entry of the mapping that holds no value
EmptyValued(val) == IF val.obj THEN val.min = "" /\ val.max = "" ELSE val.s = ""

\* C20: whatever the classification of its column, an entry with an empty
\* value (an empty string, or min and max both empty) gives no clause; a
\* mapping of such entries alone gives no clause at all, and the query composed
\* of it has no WHERE.
C20_EmptyEntriesGiveNoClause ==
  Built =>
    /\ \A k \in DOMAIN call.clauses :
         /\ hasKey(call.filterMap, call.clauses[k].col)
         /\ ~EmptyValued(valueOf(call.filterMap, call.clauses[k].col))
    /\ (\A j \in DOMAIN call.filterMap : EmptyValued(call.filterMap[j].val))
         => (call.clauses = <<>> /\ call.query.where = <<>>)

\* C20's cases: an empty text entry and an empty range entry, as in the
\* module's test
C20_Witness ==
  /\ Built
  /\ Len(call.filterMap) = 2
  /\ call.filterMap[1] = [col |-> "name", val |-> Str("")]
  /\ call.filterMap[2] = [col |-> "id", val |-> Obj("", "")]
  /\ "id" \in DOMAIN call.colMeta /\ call.colMeta["id"].filterType = "range"
  /\ call.colMeta["name"].filterType = "text"
  /\ call.clauses = <<>>

\* the clauses built of the entry of a column
ClausesOf(col) == SelectSeq(call.clauses, LAMBDA c : c.col = col)

C22_DateBounds ==
  Built =>
    \A j \in DOMAIN call.filterMap :
      LET e == call.filterMap[j]
          meta == metaOf(call.colMeta, e.col)
          minOk == e.val.obj /\ e.val.min \in DOMAIN DateLit
          maxOk == e.val.obj /\ e.val.max \in DOMAIN DateLit
          stamp == meta.type \in {"TIMESTAMP", "TIMESTAMP WITH TIME ZONE"}
          cs == ClausesOf(e.col)
      IN meta.filterType = "date" =>
           /\ Len(cs) = (IF minOk \/ maxOk THEN 1 ELSE 0)
           /\ (minOk \/ maxOk) =>
                /\ cs[1].kind = "date"
                /\ cs[1].hasMin = minOk /\ cs[1].hasMax = maxOk
                /\ minOk => cs[1].min = DateLit[e.val.min]
                /\ maxOk => cs[1].max = DateLit[e.val.max] /\ cs[1].excl = stamp
                /\ cs[1].sql = <<"(">>
                               \o (IF minOk THEN <<">=">> ELSE <<>>)
                               \o (IF minOk /\ maxOk THEN <<"AND">> ELSE <<>>)
                               \o (IF ~maxOk THEN <<>>
                                   ELSE IF stamp THEN <<"<">> ELSE <<"<=">>)
                               \o <<")">>

\* C22's cases: both bounds set on a TIMESTAMP column
C22_Witness ==
  /\ Built
  /\ \E j \in DOMAIN call.filterMap :
       call.filterMap[j] = [col |-> "created", val |-> Obj("2024-01-02", "2024-01-04")]
  /\ metaOf(call.colMeta, "created") = ColMeta("date", "TIMESTAMP", <<>>)
  /\ ClausesOf("created") # <<>>
  /\ ClausesOf("created")[1].sql = <<"(", ">=", "AND", "<", ")">>
  /\ ClausesOf("created")[1].excl

RECURSIVE unquoted(_, _)
\* the value of the SQL literal whose text between its delimiters is lit: a
\* doubled delimiter q stands for one, a single one ends the literal early
unquoted(lit, q) ==
  IF lit = <<>> THEN <<>>
  ELSE IF Head(lit) # q THEN <<Head(lit)>> \o unquoted(Tail(lit), q)
  ELSE IF Len(lit) >= 2 /\ lit[2] = q THEN <<q>> \o unquoted(Tail(Tail(lit)), q)
  ELSE <<"(end of literal)">>

RECURSIVE likePattern(_)
\* a LIKE pattern read with the backslash as its escape character: the
\* characters it matches literally, and its wildcards
likePattern(pat) ==
  IF pat = <<>> THEN <<>>
  ELSE IF Head(pat) = "\\"
       THEN IF Len(pat) >= 2 /\ pat[2] \in {"\\", "%", "_"}
            THEN <<pat[2]>> \o likePattern(Tail(Tail(pat)))
            ELSE <<"(bad escape)">>
  ELSE IF Head(pat) = "%" THEN <<"(any string)">> \o likePattern(Tail(pat))
  ELSE IF Head(pat) = "_" THEN <<"(any character)">> \o likePattern(Tail(pat))
  ELSE <<Head(pat)>> \o likePattern(Tail(pat))

\* C23: for every text filter value v the clause is a case-insensitive match
\* of the column cast to text, with an ESCAPE declaration, against a literal
\* which, its SQL quoting undone and then read as a LIKE pattern, is: any
\* string, the characters of v matched literally, any string.
C23_TextMatchesLiterally ==
  Built =>
    \A j \in DOMAIN call.filterMap :
      LET e == call.filterMap[j]
          cs == ClausesOf(e.col)
      IN (/\ metaOf(call.colMeta, e.col).filterType \notin {"range", "date", "select"}
          /\ ~e.val.obj
          /\ e.val.s \notin {"", " "})
         => /\ Len(cs) = 1
            /\ cs[1].kind = "like"
            /\ cs[1].sql = <<"CAST", "ILIKE", "ESCAPE">>
            /\ likePattern(unquoted(cs[1].lit, "'"))
                 = <<"(any string)">> \o Spelling[e.val.s] \o <<"(any string)">>

\* C23's case: the value 100% on a text column
C23_Witness ==
  /\ Built
  /\ call.filterMap = << [col |-> "name", val |-> Str("100%")] >>
  /\ call.colMeta # NoMeta
  /\ call.colMeta["name"].filterType = "text"
  /\ Len(call.clauses) = 1
  /\ call.clauses[1].lit = <<"%", "1", "0", "0", "\\", "%", "%">>

\* the escaping primitives
Primitives == {"escapeHtml", "escapeSource", "escapeLikePattern",
               "escapeColumnName", "truncateColumnName"}

\* C24: each escaping primitive is total: for every string, number, null and
\* undefined it returns a string and never fails.
C24_PrimitivesTotal ==
  call.fn \in Primitives => ~call.returned.threw

\* the five character references of HTML-escaped text and what each stands for
Entities == {<<"&", <<"&", "a", "m", "p", ";">> >>,
             <<"<", <<"&", "l", "t", ";">> >>,
             <<">", <<"&", "g", "t", ";">> >>,
             <<"\"", <<"&", "q", "u", "o", "t", ";">> >>,
             <<"'", <<"&", "#", "x", "2", "7", ";">> >>}

\* the entities that text begins with
EntitiesAt(text) ==
  {e \in Entities : Len(text) >= Len(e[2]) /\ SubSeq(text, 1, Len(e[2])) = e[2]}

RECURSIVE decoded(_)
\* HTML-escaped text with its entities decoded, once
decoded(text) ==
  IF text = <<>> THEN <<>>
  ELSE IF Head(text) # "&" THEN <<Head(text)>> \o decoded(Tail(text))
  ELSE IF EntitiesAt(text) = {} THEN <<"(bare ampersand)">>
  ELSE LET e == CHOOSE x \in EntitiesAt(text) : TRUE
       IN <<e[1]>> \o decoded(SubSeq(text, Len(e[2]) + 1, Len(text)))

\* C25: for every string s, escapeHtml(s) holds no <, >, double or single
\* quote, every & in it starts one of the five entities, and decoding the
\* entities once gives s back; null and undefined give the empty string and a
\* number its decimal text.
C25_HtmlEscaped ==
  call.fn = "escapeHtml" =>
    LET str == call.args[1]
        out == call.returned.chars
    IN /\ ~call.returned.threw
       /\ str.type = "string" =>
            /\ \A k \in DOMAIN out :
                 /\ out[k] \notin {"<", ">", "\"", "'"}
                 /\ out[k] = "&" => EntitiesAt(SubSeq(out, k, Len(out))) # {}
            /\ decoded(out) = str.chars
       /\ str.type \in {"null", "undefined"} => out = <<>>
       /\ str.type = "number" =>
            out = (CASE str.num = 0 -> <<"0">>
                     [] str.num = 42 -> <<"4", "2">>
                     [] str.num = 0 - 7 -> <<"-", "7">>)

\* C25's case: a string holding an ampersand, a quote and a tag bracket
C25_Witness ==
  /\ call.fn = "escapeHtml"
  /\ call.args[1] = Js("string", <<"&", "'", "<">>, 0)
  /\ call.returned.chars = <<"&", "a", "m", "p", ";", "&", "#", "x", "2", "7", ";",
                             "&", "l", "t", ";">>

\* every maximal run of the delimiter q in text has an even length
EvenRuns(text, q) ==
  \A j, k \in DOMAIN text :
    (/\ j <= k
     /\ \A i \in j..k : text[i] = q
     /\ j = 1 \/ text[j - 1] # q
     /\ k = Len(text) \/ text[k + 1] # q)
    => (k - j + 1) % 2 = 0

\* the number of occurrences of q in text
Count(text, q) == Cardinality({k \in DOMAIN text : text[k] = q})

\* C26: escapeSource doubles every single quote and changes nothing else;
\* escapeColumnName doubles every double quote, changes nothing else and
\* wraps the result in double quotes; un-doubling (and unwrapping) gives the
\* original string back, and inside the literal no run of delimiters has an
\* odd length.
C26_QuotesDoubled ==
  LET in == call.args[1].chars
      out == call.returned.chars
      inner == SubSeq(out, 2, Len(out) - 1)
  IN /\ (call.fn = "escapeSource" /\ call.args[1].type = "string") =>
          /\ ~call.returned.threw
          /\ Len(out) = Len(in) + Count(in, "'")
          /\ EvenRuns(out, "'")
          /\ unquoted(out, "'") = in
     /\ (call.fn = "escapeColumnName" /\ call.args[1].type = "string") =>
          /\ ~call.returned.threw
          /\ Len(out) = Len(in) + Count(in, "\"") + 2
          /\ out[1] = "\"" /\ out[Len(out)] = "\""
          /\ EvenRuns(inner, "\"")
          /\ unquoted(inner, "\"") = in

\* C26's case: a source with two single quotes
C26_Witness ==
  /\ call.fn = "escapeSource"
  /\ call.args[1] = Js("string", <<"'", "a", "'">>, 0)
  /\ call.returned = Outcome(FALSE, <<"'", "'", "a", "'", "'">>)

\* C27: for every string s, escapeLikePattern(s) prefixes each backslash,
\* percent and underscore of s with exactly one backslash and changes nothing
\* else: read with the backslash as the escape character, the output is the
\* characters of s as literals, with no wildcard.
C27_LikeEscaped ==
  (call.fn = "escapeLikePattern" /\ call.args[1].type = "string") =>
    LET str == call.args[1].chars
        out == call.returned.chars
    IN /\ ~call.returned.threw
       /\ Len(out) = Len(str) + Count(str, "\\") + Count(str, "%") + Count(str, "_")
       /\ likePattern(out) = str

\* C27's case: a backslash, a percent and an underscore
C27_Witness ==
  /\ call.fn = "escapeLikePattern"
  /\ call.args[1] = Js("string", <<"\\", "%", "_">>, 0)
  /\ call.returned = Outcome(FALSE, <<"\\", "\\", "\\", "%", "\\", "_">>)

\* the numeric types and the date and timestamp types of the engine among
\* the type tags of the model's files
NumericTypes == {"INTEGER", "UBIGINT"}

DateTypes == {"TIMESTAMP"}

\* the classification C28 gives column col of type type of file src when the
\* probes are answered
Classified28(src, col, type) ==
  LET n == DistinctCountOf(distinctCountQuery(src, col))
  IN IF type \in NumericTypes THEN ColMeta("range", type, <<>>)
     ELSE IF type \in DateTypes THEN ColMeta("date", type, <<>>)
     ELSE IF n >= 1 /\ n <= CATEGORICAL_THRESHOLD
     THEN ColMeta("select", type,
                  Window(DistinctVals(src, col), CATEGORICAL_THRESHOLD, 0))
     ELSE ColMeta("text", type, <<>>)

\* C28: every column of the capped schema has exactly one classification:
\* range for a numeric type, date for a date or timestamp type, and for any
\* other type select exactly when the distinct-count probe returns between 1
\* and CATEGORICAL_THRESHOLD, with at most that many values in sorted order,
\* and text otherwise; a failing probe gives text and does not fail the load.
C28_ColumnsClassified ==
  (/\ Idle /\ Readable /\ columnMeta # NoMeta
   /\ metaSrc = currentSource /\ lastLoad.src = currentSource /\ lastLoad.ok)
  => \A k \in DOMAIN columns :
       LET c == columns[k]
           m == columnMeta[c.name]
       IN /\ c.name \in DOMAIN columnMeta
          /\ \/ m = Classified28(currentSource, c.name, c.type)
             \/ /\ faultsLeft < MaxFaults + 1
                /\ c.type \notin NumericTypes \cup DateTypes
                /\ m = ColMeta("text", c.type, <<>>)

\* task i awaits a page or batch that a LoadMore or LoadAll will append
Advancing(i) == tasks[i].kind \in {"loadMore", "loadAll"} /\ tasks[i].q.type = "rows"

\* two row fetches for the same offset under the same sort and filter state
SameFetch(p, q) ==
  /\ p.type = "rows" /\ q.type = "rows"
  /\ p.src = q.src /\ p.off = q.off
  /\ p.where = q.where /\ p.sortCol = q.sortCol /\ p.sortDir = q.sortDir

\* C29: at most one transition that advances the offset is in flight: no two
\* row fetches are in flight for the same offset under the same sort and
\* filter state, and no row is appended to the table twice.
C29_OneFetchPerOffset ==
  /\ \A i, j \in DOMAIN tasks :
       (i # j /\ Advancing(i)) => ~SameFetch(tasks[i].q, tasks[j].q)
  /\ \A j, k \in DOMAIN tbody : j # k => tbody[j] # tbody[k]

\* C30: in every state with no query in flight, the current file loaded and
\* its table shown, the table holds offset rows, the first offset rows of the
\* result for the current sort and filter state, also after a Sort/Filter
\* transition whose query failed.
C30_TableIsPrefixOfResult ==
  (/\ Idle /\ Readable /\ tableState = "table"
   /\ lastLoad.src = currentSource /\ lastLoad.ok /\ lastLoad.total > 0) =>
    /\ Len(tbody) = offset
    /\ offset <= Len(Result)
    /\ tbody = SubSeq(Result, 1, offset)


(***************************************************************************)
(* The redirect of the service worker.                                     *)
(***************************************************************************)
\* a URL whose path, the part before the query and the fragment, ends in
\* .parquet
ParquetUrl(url) ==
  \E n \in 1..Len(url) :
    /\ \A k \in 1..n : url[k] \notin {"?", "#"}
    /\ n = Len(url) \/ url[n + 1] \in {"?", "#"}
    /\ n >= 8
    /\ SubSeq(url, n - 7, n) = <<".", "p", "a", "r", "q", "u", "e", "t">>

\* decodeURIComponent(text)
RECURSIVE decodeURIComponent(_)
decodeURIComponent(text) ==
  LET codes == (<<"3", "A">> :> ":") @@ (<<"2", "F">> :> "/") @@ (<<"3", "F">> :> "?")
                 @@ (<<"2", "3">> :> "#") @@ (<<"3", "D">> :> "=")
                 @@ (<<"2", "5">> :> "%") @@ (<<"2", "6">> :> "&")
  IN IF text = <<>> THEN <<>>
     ELSE IF Head(text) = "%" /\ Len(text) >= 3
     THEN <<codes[SubSeq(text, 2, 3)]>> \o decodeURIComponent(SubSeq(text, 4, Len(text)))
     ELSE <<Head(text)>> \o decodeURIComponent(Tail(text))

\* the viewer page opened on a file: viewer.html of the extension with the
\* file's URL, encoded, as the url parameter and nothing else
ViewerOn(url, file) ==
  LET page == getViewerUrl(<<>>)
  IN /\ Len(url) > Len(page)
     /\ SubSeq(url, 1, Len(page)) = page
     /\ \A k \in (Len(page) + 1)..Len(url) : url[k] \notin {"&", "#", "?", "=", "/", ":"}
     /\ decodeURIComponent(SubSeq(url, Len(page) + 1, Len(url))) = file

\* the events that follow from the user's event i, and those of them at which
\* a tab was sent to another URL
Following(i) == {j \in DOMAIN handled : handled[j].origin = i}

Redirecting(i) == {j \in Following(i) : handled[j].opened.how # "none"}

DownloadUrl(j) ==
  IF handled[j].url # <<>> THEN handled[j].url ELSE handled[j].finalUrl

\* the main-frame navigations to a URL handled before event j and not followed,
\* before j, by a download of that URL
Unconsumed(url, j) ==
  {i \in 1..(j - 1) :
     /\ handled[i].kind = "navigation" /\ handled[i].frameId = 0
     /\ handled[i].url = url
     /\ \A d \in (i + 1)..(j - 1) :
          handled[d].kind = "download" => DownloadUrl(d) # url}

\* the viewer was opened in the tab that was active, or in a new tab when
\* there was none
InActiveOrNewTab(j) ==
  IF handled[j].tabId = 0 THEN handled[j].opened.how = "create"
  ELSE /\ handled[j].opened.how = "update"
       /\ handled[j].opened.tabId = handled[j].tabId

\* the last event of a set of events
Latest(events) == CHOOSE i \in events : \A k \in events : k <= i

\* C32: a .parquet download created less than 30 s after the most recent
\* main-frame navigation to its URL is cancelled and the viewer is opened in
\* the tab of that navigation, however often the URL was navigated to before;
\* a pending entry is gone once it is consumed or 30 s after its navigation;
\* and a download with no pending entry opens the viewer in the active tab or
\* in a new one
C32_DownloadOpensNavigatingTab ==
  /\ \A j \in DOMAIN handled :
       handled[j].kind = "download" /\ ParquetUrl(DownloadUrl(j)) =>
         /\ handled[j].cancelled
         /\ ViewerOn(handled[j].opened.url, DownloadUrl(j))
         /\ IF Unconsumed(DownloadUrl(j), j) = {}
            THEN InActiveOrNewTab(j)
            ELSE LET i == Latest(Unconsumed(DownloadUrl(j), j))
                 IN IF handled[j].at - handled[i].at < PENDING_MS
                    THEN /\ handled[j].opened.how = "update"
                         /\ handled[j].opened.tabId = handled[i].tabId
                    ELSE handled[j].at - handled[i].at = PENDING_MS
                           \/ InActiveOrNewTab(j)
  /\ \A url \in DOMAIN pendingParquetTabs :
       /\ Unconsumed(url, Len(handled) + 1) # {}
       /\ LET i == Latest(Unconsumed(url, Len(handled) + 1))
          IN /\ now - handled[i].at <= PENDING_MS
             /\ pendingParquetTabs[url] = handled[i].tabId

=============================================================================
